---- MODULE Spec2Model ----
(***************************************************************************)
(* The GBA system bus (core/src/sysbus.rs), the cartridge routing          *)
(* (core/src/cartridge/mod.rs), the wait-state cycle tables and the ARM     *)
(* instructions that charge cycles against them (arm7tdmi/arm/exec.rs).    *)
(*                                                                         *)
(* Representation.  An address is a natural number below 2^31 (TLC's       *)
(* integers are 32-bit signed, so the pages 0x80..0xFF are not drawn).     *)
(* A u32 datum is the tuple of its four bytes, least significant first; a  *)
(* u16 datum is a tuple of two bytes; a u8 datum is a number 0..255.       *)
(* Every shift the bus performs on data is by a whole number of bytes.     *)
(***************************************************************************)
EXTENDS Naturals, Sequences, FiniteSets

VARIABLES sysbus, cpu, core, last, bios_read

vars == <<sysbus, cpu, core, last, bios_read>>

(***************************************************************************)
(* Address arithmetic                                                      *)
(***************************************************************************)

\* addr & 0xff000000, as the page number addr >> 24
Page(addr) == addr \div 16777216

\* addr & !((1 << k) - 1), given m = 2^k
AlignDown(addr, m) == addr - (addr % m)

\* addr & (m - 1), given m = 2^k
LowBits(addr, m) == addr % m

(***************************************************************************)
(* consts                                                                  *)
(***************************************************************************)

PAGE_BIOS == 0
PAGE_EWRAM == 2
PAGE_IWRAM == 3
PAGE_IOMEM == 4
PAGE_PALRAM == 5
PAGE_VRAM == 6
PAGE_OAM == 7
PAGE_GAMEPAK_WS0 == 8
PAGE_GAMEPAK_WS1 == 10
PAGE_GAMEPAK_WS2 == 12
PAGE_SRAM_LO == 14
PAGE_SRAM_HI == 15
CYCLE_LUT_SIZE == 16

Pages == 0 .. (CYCLE_LUT_SIZE - 1)

(***************************************************************************)
(* WaitControl: the structured view of the WAITCNT register                *)
(***************************************************************************)

AllWaitControls ==
    [sram_wait : 0 .. 3,
     ws0_first : 0 .. 3, ws0_second : 0 .. 1,
     ws1_first : 0 .. 3, ws1_second : 0 .. 1,
     ws2_first : 0 .. 3, ws2_second : 0 .. 1]

\* the values written: every value of every field, and every combination of
\* the SRAM, WS0 and WS1 fields
WaitControls ==
    {w \in AllWaitControls :
        /\ w.ws2_first = (w.ws0_first + w.ws1_first + 1) % 4
        /\ w.ws2_second = (w.ws0_second + w.ws1_second + 1) % 2}

WaitControlReset ==
    [sram_wait |-> 0,
     ws0_first |-> 0, ws0_second |-> 0,
     ws1_first |-> 0, ws1_second |-> 0,
     ws2_first |-> 0, ws2_second |-> 0]

(***************************************************************************)
(* CycleLookupTables                                                       *)
(***************************************************************************)

S_GAMEPAK_NSEQ_CYCLES == <<4, 3, 2, 8>>
S_GAMEPAK_WS0_SEQ_CYCLES == <<2, 1>>
S_GAMEPAK_WS1_SEQ_CYCLES == <<4, 1>>
S_GAMEPAK_WS2_SEQ_CYCLES == <<8, 1>>

\* a Rust array indexed from 0
At(table, i) == table[i + 1]

CycleLookupTables_default ==
    [n_cycles32 |-> [p \in Pages |-> 1],
     s_cycles32 |-> [p \in Pages |-> 1],
     n_cycles16 |-> [p \in Pages |-> 1],
     s_cycles16 |-> [p \in Pages |-> 1]]

CycleLookupTables_init(luts) ==
    [n_cycles32 |-> [luts.n_cycles32 EXCEPT
                        ![PAGE_EWRAM] = 6, ![PAGE_OAM] = 2,
                        ![PAGE_VRAM] = 2, ![PAGE_PALRAM] = 2],
     s_cycles32 |-> [luts.s_cycles32 EXCEPT
                        ![PAGE_EWRAM] = 6, ![PAGE_OAM] = 2,
                        ![PAGE_VRAM] = 2, ![PAGE_PALRAM] = 2],
     n_cycles16 |-> [luts.n_cycles16 EXCEPT
                        ![PAGE_EWRAM] = 3, ![PAGE_OAM] = 1,
                        ![PAGE_VRAM] = 1, ![PAGE_PALRAM] = 1],
     s_cycles16 |-> [luts.s_cycles16 EXCEPT
                        ![PAGE_EWRAM] = 3, ![PAGE_OAM] = 1,
                        ![PAGE_VRAM] = 1, ![PAGE_PALRAM] = 1]]

\* the "update SRAM access" block: of the eight assignments, four are
\* repeated, so only n_cycles32/s_cycles32 of PAGE_SRAM_LO and
\* n_cycles16/s_cycles16 of PAGE_SRAM_HI are assigned
update_sram_waitstates(luts, waitcnt) ==
    LET sram_wait_cycles == 1 + At(S_GAMEPAK_NSEQ_CYCLES, waitcnt.sram_wait)
    IN  [n_cycles32 |-> [luts.n_cycles32 EXCEPT ![PAGE_SRAM_LO] = sram_wait_cycles],
         n_cycles16 |-> [luts.n_cycles16 EXCEPT ![PAGE_SRAM_HI] = sram_wait_cycles],
         s_cycles32 |-> [luts.s_cycles32 EXCEPT ![PAGE_SRAM_LO] = sram_wait_cycles],
         s_cycles16 |-> [luts.s_cycles16 EXCEPT ![PAGE_SRAM_HI] = sram_wait_cycles]]

\* (mutant) the loop stops after the low page
WaitstatePages_low_only(base) == {base}

\* the pages the loop "for i in 0..2" assigns for the waitstate at `base`
WaitstatePages(base) == {base + i : i \in 0 .. 1}

\* one waitstate's 16-bit entries, both pages
update_waitstate16(luts, base, n16, s16) ==
    [luts EXCEPT
        !.n_cycles16 = [p \in Pages |->
            IF p \in WaitstatePages(base) THEN n16 ELSE luts.n_cycles16[p]],
        !.s_cycles16 = [p \in Pages |->
            IF p \in WaitstatePages(base) THEN s16 ELSE luts.s_cycles16[p]]]

\* (mutant) the 32-bit non-sequential cost counts the first half only
update_waitstate32_first_half(luts, base) ==
    [luts EXCEPT
        !.n_cycles32 = [p \in Pages |->
            IF p \in WaitstatePages(base)
            THEN luts.n_cycles16[p]
            ELSE luts.n_cycles32[p]],
        !.s_cycles32 = [p \in Pages |->
            IF p \in WaitstatePages(base)
            THEN 2 * luts.s_cycles16[p]
            ELSE luts.s_cycles32[p]]]

\* ROM 32bit accesses are split into two 16bit accesses 1N+1S; sequential 2S
update_waitstate32(luts, base) ==
    [luts EXCEPT
        !.n_cycles32 = [p \in Pages |->
            IF p \in WaitstatePages(base)
            THEN luts.n_cycles16[p] + luts.s_cycles16[p]
            ELSE luts.n_cycles32[p]],
        !.s_cycles32 = [p \in Pages |->
            IF p \in WaitstatePages(base)
            THEN 2 * luts.s_cycles16[p]
            ELSE luts.s_cycles32[p]]]

update_gamepak_waitstates(luts, waitcnt) ==
    LET l0 == update_sram_waitstates(luts, waitcnt)
        l1 == update_waitstate16(l0, PAGE_GAMEPAK_WS0,
                  1 + At(S_GAMEPAK_NSEQ_CYCLES, waitcnt.ws0_first),
                  1 + At(S_GAMEPAK_WS0_SEQ_CYCLES, waitcnt.ws0_second))
        l2 == update_waitstate16(l1, PAGE_GAMEPAK_WS1,
                  1 + At(S_GAMEPAK_NSEQ_CYCLES, waitcnt.ws1_first),
                  1 + At(S_GAMEPAK_WS1_SEQ_CYCLES, waitcnt.ws1_second))
        l3 == update_waitstate16(l2, PAGE_GAMEPAK_WS2,
                  1 + At(S_GAMEPAK_NSEQ_CYCLES, waitcnt.ws2_first),
                  1 + At(S_GAMEPAK_WS2_SEQ_CYCLES, waitcnt.ws2_second))
    IN  update_waitstate32(
            update_waitstate32(
                update_waitstate32(l3, PAGE_GAMEPAK_WS0),
                PAGE_GAMEPAK_WS1),
            PAGE_GAMEPAK_WS2)

MemoryAccessTypes == {"NonSeq", "Seq"}
MemoryAccessWidths == {8, 16, 32}

get_cycles(sb, addr, access, width) ==
    LET page == Page(addr)
    IN  IF page > 15 THEN 1
        ELSE IF width \in {8, 16}
             THEN IF access = "NonSeq"
                  THEN sb.cycle_luts.n_cycles16[page]
                  ELSE sb.cycle_luts.s_cycles16[page]
             ELSE IF access = "NonSeq"
                  THEN sb.cycle_luts.n_cycles32[page]
                  ELSE sb.cycle_luts.s_cycles32[page]

on_waitcnt_written(sb, waitcnt) ==
    [sb EXCEPT !.cycle_luts = update_gamepak_waitstates(sb.cycle_luts, waitcnt)]

(***************************************************************************)
(* Data: u32 = <<b0, b1, b2, b3>>, u16 = <<b0, b1>>, least significant     *)
(* byte first                                                              *)
(***************************************************************************)

ZeroWord == <<0, 0, 0, 0>>

\* value as u16, value as u8
AsU16(value) == <<value[1], value[2]>>
AsU8(value) == value[1]

\* u16 as u32
U16AsU32(h) == <<h[1], h[2], 0, 0>>

\* value >> (8 * n), for a u32
ShiftRightBytes(value, n) ==
    [i \in 1 .. 4 |-> IF i + n <= 4 THEN value[i + n] ELSE 0]

\* (hi << 16) | lo, for two u32 whose upper halves are zero
HalfPair(hi, lo) == <<lo[1], lo[2], hi[1], hi[2]>>

(***************************************************************************)
(* BoxedMemory: a zero-initialised little-endian byte array.  Only the     *)
(* bytes that are not zero are stored.                                     *)
(***************************************************************************)

EmptyMemory == [o \in {} |-> 0]

BoxedMemory_read_8(mem, off) == IF off \in DOMAIN mem THEN mem[off] ELSE 0

BoxedMemory_read_16(mem, off) ==
    <<BoxedMemory_read_8(mem, off), BoxedMemory_read_8(mem, off + 1)>>

BoxedMemory_read_32(mem, off) ==
    <<BoxedMemory_read_8(mem, off), BoxedMemory_read_8(mem, off + 1),
      BoxedMemory_read_8(mem, off + 2), BoxedMemory_read_8(mem, off + 3)>>

BoxedMemory_write_8(mem, off, b) ==
    LET dom == IF b = 0 THEN DOMAIN mem \ {off} ELSE DOMAIN mem \cup {off}
    IN  [o \in dom |-> IF o = off THEN b ELSE mem[o]]

BoxedMemory_write_16(mem, off, h) ==
    BoxedMemory_write_8(BoxedMemory_write_8(mem, off, h[1]), off + 1, h[2])

BoxedMemory_write_32(mem, off, w) ==
    BoxedMemory_write_8(
        BoxedMemory_write_8(
            BoxedMemory_write_8(
                BoxedMemory_write_8(mem, off, w[1]),
                off + 1, w[2]),
            off + 2, w[3]),
        off + 3, w[4])

(***************************************************************************)
(* The BIOS image and the ROM image: fixed inputs, immutable after load    *)
(***************************************************************************)

\* byte `off` of the 16 KiB BIOS image
bios(off) == (7 * off + 3) % 256

\* byte `off` of the ROM dump
rom_bytes(off) == (5 * off + 1) % 256

(***************************************************************************)
(* Cartridge                                                               *)
(***************************************************************************)

GPIO_PORT_DATA == 196
GPIO_PORT_DIRECTION == 198
GPIO_PORT_CONTROL == 200
EEPROM_BASE_ADDR == 234880768
PAGE_GAMEPAK_WS2_HI == 13

\* 16 * 1024 * 1024
SIXTEEN_MIB == 16777216

\* addr & 0x01ff_ffff
RomOffset(addr) == LowBits(addr, 33554432)

is_gpio_access(addr) ==
    RomOffset(addr) \in {GPIO_PORT_DATA, GPIO_PORT_DIRECTION, GPIO_PORT_CONTROL}

\* Gpio: the register file data/direction/control, keyed by register offset
GpioRegs == {GPIO_PORT_DATA, GPIO_PORT_DIRECTION, GPIO_PORT_CONTROL}

Gpio_read(gpio, offset) == gpio.regs[offset]

Gpio_write(gpio, offset, value) == [gpio EXCEPT !.regs[offset] = value]

\* Flash: the command state machine driven by writes to 0x5555 / 0x2AAA;
\* an erased byte reads as the array's initial value
FLASH_CHIP_ID == <<50, 27>>

Flash_offset(backup, addr) == 65536 * backup.bank + LowBits(addr, 65536)

Flash_read(backup, addr) ==
    IF backup.chip_id /\ LowBits(addr, 65536) < 2
    THEN FLASH_CHIP_ID[LowBits(addr, 65536) + 1]
    ELSE BoxedMemory_read_8(backup.mem, Flash_offset(backup, addr))

Flash_command(backup, value) ==
    CASE value = 144 -> [backup EXCEPT !.mode = "Idle", !.chip_id = TRUE]
      [] value = 240 -> [backup EXCEPT !.mode = "Idle", !.chip_id = FALSE]
      [] value = 128 -> [backup EXCEPT !.mode = "Idle", !.erase = TRUE]
      [] value = 160 -> [backup EXCEPT !.mode = "Write"]
      [] value = 176 /\ backup.banks = 2 -> [backup EXCEPT !.mode = "Bank"]
      [] value = 16 /\ backup.erase ->
            [backup EXCEPT !.mode = "Idle", !.erase = FALSE,
                           !.mem = EmptyMemory]
      [] OTHER -> [backup EXCEPT !.mode = "Idle", !.erase = FALSE]

Flash_write(backup, addr, value) ==
    LET off == LowBits(addr, 65536)
    IN  CASE backup.mode = "Write" ->
                [backup EXCEPT !.mode = "Idle",
                    !.mem = BoxedMemory_write_8(@, Flash_offset(backup, addr), value)]
          [] backup.mode = "Bank" ->
                [backup EXCEPT !.mode = "Idle",
                               !.bank = IF value \in {0, 1} THEN value ELSE @]
          [] backup.mode = "Idle" /\ off = 21845 /\ value = 170 ->
                [backup EXCEPT !.mode = "Cmd1"]
          [] backup.mode = "Cmd1" /\ off = 10922 /\ value = 85 ->
                [backup EXCEPT !.mode = "Cmd2"]
          [] backup.mode = "Cmd2" /\ off = 21845 ->
                Flash_command(backup, value)
          [] backup.mode = "Cmd2" /\ value = 48 /\ backup.erase ->
                [backup EXCEPT !.mode = "Idle", !.erase = FALSE,
                    !.mem = [o \in {x \in DOMAIN @ :
                                x \div 4096 # Flash_offset(backup, addr) \div 4096}
                             |-> @[o]]]
          [] OTHER -> [backup EXCEPT !.mode = "Idle", !.erase = FALSE]

\* EepromController: write_half ingests the LSB of the value into the bit
\* buffer; read_half emits a bit in the LSB
Eeprom_write_half(backup, addr, value) ==
    [backup EXCEPT !.rx = Append(@, value[1] % 2)]

Eeprom_read_half(backup, addr) == <<1, 0>>

Cartridge_read_8(cart, addr) ==
    LET offset == RomOffset(addr)
    IN  IF Page(addr) \in {PAGE_SRAM_LO, PAGE_SRAM_HI}
        THEN CASE cart.backup.kind = "Sram" ->
                    BoxedMemory_read_8(cart.backup.mem, LowBits(addr, 32768))
               [] cart.backup.kind = "Flash" -> Flash_read(cart.backup, addr)
               [] OTHER -> 0
        ELSE IF offset >= cart.size THEN 221 ELSE rom_bytes(offset)

\* Bus::default_read_16: the two bytes at addr and addr + 1
default_read_16(cart, addr) ==
    <<Cartridge_read_8(cart, addr), Cartridge_read_8(cart, addr + 1)>>

\* (mutant) the ROM size is not consulted
eeprom_window_any_size(cart, addr) == Page(addr) = PAGE_GAMEPAK_WS2_HI

eeprom_window(cart, addr) ==
    /\ Page(addr) = PAGE_GAMEPAK_WS2_HI
    /\ (cart.size <= SIXTEEN_MIB \/ addr >= EEPROM_BASE_ADDR)

Cartridge_read_16(cart, addr) ==
    IF cart.gpio.present /\ is_gpio_access(addr)
    THEN Gpio_read(cart.gpio, RomOffset(addr))
    ELSE IF eeprom_window(cart, addr) /\ cart.backup.kind = "Eeprom"
         THEN Eeprom_read_half(cart.backup, addr)
         ELSE default_read_16(cart, addr)

Cartridge_write_8(cart, addr, value) ==
    IF Page(addr) \in {PAGE_SRAM_LO, PAGE_SRAM_HI}
    THEN CASE cart.backup.kind = "Flash" ->
                [cart EXCEPT !.backup = Flash_write(@, addr, value)]
           [] cart.backup.kind = "Sram" ->
                [cart EXCEPT !.backup.mem =
                    BoxedMemory_write_8(@, LowBits(addr, 32768), value)]
           [] OTHER -> cart
    ELSE cart

\* Bus::default_write_16: the two bytes to addr and addr + 1
default_write_16(cart, addr, value) ==
    Cartridge_write_8(Cartridge_write_8(cart, addr, value[1]), addr + 1, value[2])

Cartridge_write_16(cart, addr, value) ==
    IF cart.gpio.present /\ is_gpio_access(addr)
    THEN [cart EXCEPT !.gpio = Gpio_write(@, RomOffset(addr), value)]
    ELSE IF eeprom_window(cart, addr) /\ cart.backup.kind = "Eeprom"
         THEN [cart EXCEPT !.backup = Eeprom_write_half(@, addr, value)]
         ELSE default_write_16(cart, addr, value)

\* Bus::read_32 and Bus::write_32 as the cartridge inherits them: only 16-bit
\* accesses are routed to GPIO and EEPROM; a 32-bit access is served by bytes
Cartridge_read_32(cart, addr) ==
    <<Cartridge_read_8(cart, addr), Cartridge_read_8(cart, addr + 1),
      Cartridge_read_8(cart, addr + 2), Cartridge_read_8(cart, addr + 3)>>

Cartridge_write_32(cart, addr, value) ==
    Cartridge_write_8(
        Cartridge_write_8(
            Cartridge_write_8(
                Cartridge_write_8(cart, addr, value[1]),
                addr + 1, value[2]),
            addr + 2, value[3]),
        addr + 3, value[4])

(***************************************************************************)
(* Collaborators of the bus: the I/O block and the graphics memory, each a *)
(* byte-addressed register file                                            *)
(***************************************************************************)

IoDevices_read_8(io, off) == BoxedMemory_read_8(io, off)
IoDevices_read_16(io, off) == BoxedMemory_read_16(io, off)
IoDevices_read_32(io, off) == BoxedMemory_read_32(io, off)
IoDevices_write_8(io, off, value) == BoxedMemory_write_8(io, off, value)
IoDevices_write_16(io, off, value) == BoxedMemory_write_16(io, off, value)
IoDevices_write_32(io, off, value) == BoxedMemory_write_32(io, off, value)

Gpu_read_8(gpu, addr) == BoxedMemory_read_8(gpu, addr)
Gpu_read_16(gpu, addr) == BoxedMemory_read_16(gpu, addr)
Gpu_read_32(gpu, addr) == BoxedMemory_read_32(gpu, addr)
Gpu_write_8(gpu, addr, value) == BoxedMemory_write_8(gpu, addr, value)
Gpu_write_16(gpu, addr, value) == BoxedMemory_write_16(gpu, addr, value)
Gpu_write_32(gpu, addr, value) == BoxedMemory_write_32(gpu, addr, value)

\* self.bios.read_32(off)
bios_read_32(off) == <<bios(off), bios(off + 1), bios(off + 2), bios(off + 3)>>

\* addr & 0x3_ffff and addr & 0x7fff: the offset into the mirrored work RAMs
ewram_offset_unmirrored(addr) == LowBits(addr, 16777216)
ewram_offset(addr) == LowBits(addr, 262144)
iwram_offset(addr) == LowBits(addr, 32768)

(***************************************************************************)
(* SysBus reads.  A read yields the datum, the BIOS cell as the read       *)
(* leaves it, and whether the call returns: the open-bus path calls        *)
(* read_16 again, and `fuel` bounds the depth of that recursion.           *)
(***************************************************************************)

Returned(bios_value, value) ==
    [bios_value |-> bios_value, value |-> value, returned |-> TRUE]

NotReturned(bios_value) ==
    [bios_value |-> bios_value, value |-> ZeroWord, returned |-> FALSE]

\* (mutant) value >> ((addr & 1) << 3)
load_shifted_bit0(addr, value) == ShiftRightBytes(value, LowBits(addr, 2))

\* value >> ((addr & 3) << 3)
load_shifted(addr, value) == ShiftRightBytes(value, LowBits(addr, 4))

\* (mutant) the IWRAM arm is the BIOS/OAM arm's unaligned case throughout
open_bus_value_iwram_as_unaligned(c, r15_plus_6) ==
    IF c.state = "ARM"
    THEN c.prefetched
    ELSE LET decoded == U16AsU32(AsU16(c.decoded))
             prefetched == U16AsU32(AsU16(c.prefetched))
             r15 == c.pc
             page_r15 == Page(r15)
         IN  CASE page_r15 \in {PAGE_EWRAM, PAGE_PALRAM, PAGE_VRAM}
                     \cup (PAGE_GAMEPAK_WS0 .. PAGE_GAMEPAK_WS2) ->
                     HalfPair(prefetched, prefetched)
               [] page_r15 \in {PAGE_BIOS, PAGE_OAM} ->
                     IF LowBits(r15, 4) = 0
                     THEN HalfPair(U16AsU32(r15_plus_6), prefetched)
                     ELSE HalfPair(prefetched, decoded)
               [] page_r15 = PAGE_IWRAM ->
                     HalfPair(prefetched, decoded)
               [] OTHER -> HalfPair(prefetched, prefetched)

\* the value of read_invalid! before load_shifted; r15_plus_6 is the result
\* of self.read_16(r15 + 6), which only the aligned BIOS/OAM arm evaluates
open_bus_value(c, r15_plus_6) ==
    IF c.state = "ARM"
    THEN c.prefetched
    ELSE LET decoded == U16AsU32(AsU16(c.decoded))
             prefetched == U16AsU32(AsU16(c.prefetched))
             r15 == c.pc
             page_r15 == Page(r15)
         IN  CASE page_r15 \in {PAGE_EWRAM, PAGE_PALRAM, PAGE_VRAM}
                     \cup (PAGE_GAMEPAK_WS0 .. PAGE_GAMEPAK_WS2) ->
                     HalfPair(prefetched, prefetched)
               [] page_r15 \in {PAGE_BIOS, PAGE_OAM} ->
                     IF LowBits(r15, 4) = 0
                     THEN HalfPair(U16AsU32(r15_plus_6), prefetched)
                     ELSE HalfPair(prefetched, decoded)
               [] page_r15 = PAGE_IWRAM ->
                     IF LowBits(r15, 4) = 0
                     THEN HalfPair(decoded, prefetched)
                     ELSE HalfPair(prefetched, decoded)
               [] OTHER -> HalfPair(prefetched, prefetched)

\* whether read_invalid! evaluates the nested self.read_16(r15 + 6)
open_bus_reads_r15_plus_6(c) ==
    /\ c.state = "THUMB"
    /\ Page(c.pc) \in {PAGE_BIOS, PAGE_OAM}
    /\ LowBits(c.pc, 4) = 0

RECURSIVE open_bus_impl(_, _, _, _)
RECURSIVE read_16(_, _, _, _)

open_bus_impl(sb, c, addr, fuel) ==
    IF open_bus_reads_r15_plus_6(c)
    THEN IF fuel = 0
         THEN NotReturned(sb.bios_value)
         ELSE LET r == read_16(sb, c, c.pc + 6, fuel - 1)
              IN  IF r.returned
                  THEN Returned(r.bios_value,
                           load_shifted(addr, open_bus_value(c, r.value)))
                  ELSE NotReturned(r.bios_value)
    ELSE Returned(sb.bios_value, load_shifted(addr, open_bus_value(c, <<0, 0>>)))

\* read_invalid!(self, half(addr)) and read_invalid!(self, byte(addr))
read_invalid_half(r) ==
    IF r.returned THEN Returned(r.bios_value, AsU16(r.value))
    ELSE [r EXCEPT !.value = <<0, 0>>]

read_invalid_byte(r) ==
    IF r.returned THEN Returned(r.bios_value, AsU8(r.value))
    ELSE [r EXCEPT !.value = 0]

\* (mutant) the BIOS is read whatever the pc
bios_unprotected_read(sb, c, addr) ==
    Returned(bios_read_32(AlignDown(addr, 4)), bios_read_32(AlignDown(addr, 4)))

\* the BIOS arm below the open-bus test: the word read, and the cell after
bios_protected_read(sb, c, addr) ==
    IF c.pc < 16384
    THEN Returned(bios_read_32(AlignDown(addr, 4)), bios_read_32(AlignDown(addr, 4)))
    ELSE Returned(sb.bios_value, sb.bios_value)

read_16(sb, c, addr, fuel) ==
    LET aligned == AlignDown(addr, 2)
        page == Page(addr)
    IN  CASE page = PAGE_BIOS ->
                IF aligned > 16382
                THEN read_invalid_half(open_bus_impl(sb, c, addr, fuel))
                ELSE LET r == bios_protected_read(sb, c, addr)
                     IN  Returned(r.bios_value,
                            AsU16(ShiftRightBytes(r.value, LowBits(addr, 4) - LowBits(addr, 2))))
          [] page = PAGE_EWRAM ->
                Returned(sb.bios_value,
                    BoxedMemory_read_16(sb.onboard_work_ram,
                        AlignDown(ewram_offset(addr), 2)))
          [] page = PAGE_IWRAM ->
                Returned(sb.bios_value,
                    BoxedMemory_read_16(sb.internal_work_ram,
                        AlignDown(iwram_offset(addr), 2)))
          [] page = PAGE_IOMEM ->
                Returned(sb.bios_value,
                    IoDevices_read_16(sb.io,
                        IF AlignDown(LowBits(addr, 65536), 2) = 32768
                        THEN 2048
                        ELSE AlignDown(LowBits(addr, 2048), 2)))
          [] page \in {PAGE_PALRAM, PAGE_VRAM, PAGE_OAM} ->
                Returned(sb.bios_value, Gpu_read_16(sb.gpu, aligned))
          [] page \in PAGE_GAMEPAK_WS0 .. PAGE_SRAM_HI ->
                Returned(sb.bios_value, Cartridge_read_16(sb.cartridge, aligned))
          [] OTHER -> read_invalid_half(open_bus_impl(sb, c, addr, fuel))

read_32(sb, c, addr, fuel) ==
    LET aligned == AlignDown(addr, 4)
        page == Page(addr)
    IN  CASE page = PAGE_BIOS ->
                IF aligned > 16380
                THEN open_bus_impl(sb, c, addr, fuel)
                ELSE bios_protected_read(sb, c, aligned)
          [] page = PAGE_EWRAM ->
                Returned(sb.bios_value,
                    BoxedMemory_read_32(sb.onboard_work_ram,
                        AlignDown(ewram_offset(addr), 4)))
          [] page = PAGE_IWRAM ->
                Returned(sb.bios_value,
                    BoxedMemory_read_32(sb.internal_work_ram,
                        AlignDown(iwram_offset(addr), 4)))
          [] page = PAGE_IOMEM ->
                Returned(sb.bios_value,
                    IoDevices_read_32(sb.io,
                        IF AlignDown(LowBits(addr, 65536), 4) = 32768
                        THEN 2048
                        ELSE AlignDown(LowBits(addr, 2048), 4)))
          [] page \in {PAGE_PALRAM, PAGE_VRAM, PAGE_OAM} ->
                Returned(sb.bios_value, Gpu_read_32(sb.gpu, aligned))
          [] page \in PAGE_GAMEPAK_WS0 .. PAGE_SRAM_HI ->
                Returned(sb.bios_value, Cartridge_read_32(sb.cartridge, aligned))
          [] OTHER -> open_bus_impl(sb, c, addr, fuel)

read_8(sb, c, addr, fuel) ==
    LET page == Page(addr)
    IN  CASE page = PAGE_BIOS ->
                IF addr > 16383
                THEN read_invalid_byte(open_bus_impl(sb, c, addr, fuel))
                ELSE LET r == bios_protected_read(sb, c, addr)
                     IN  Returned(r.bios_value,
                            AsU8(ShiftRightBytes(r.value, LowBits(addr, 4))))
          [] page = PAGE_EWRAM ->
                Returned(sb.bios_value,
                    BoxedMemory_read_8(sb.onboard_work_ram, ewram_offset(addr)))
          [] page = PAGE_IWRAM ->
                Returned(sb.bios_value,
                    BoxedMemory_read_8(sb.internal_work_ram, iwram_offset(addr)))
          [] page = PAGE_IOMEM ->
                Returned(sb.bios_value,
                    IoDevices_read_8(sb.io,
                        IF LowBits(addr, 65536) = 32768
                        THEN 2048
                        ELSE LowBits(addr, 2048)))
          [] page \in {PAGE_PALRAM, PAGE_VRAM, PAGE_OAM} ->
                Returned(sb.bios_value, Gpu_read_8(sb.gpu, addr))
          [] page \in PAGE_GAMEPAK_WS0 .. PAGE_SRAM_HI ->
                Returned(sb.bios_value, Cartridge_read_8(sb.cartridge, addr))
          [] OTHER -> read_invalid_byte(open_bus_impl(sb, c, addr, fuel))

(***************************************************************************)
(* SysBus writes                                                           *)
(***************************************************************************)

write_32(sb, addr, value) ==
    LET page == Page(addr)
    IN  CASE page = PAGE_BIOS -> sb
          [] page = PAGE_EWRAM ->
                [sb EXCEPT !.onboard_work_ram =
                    BoxedMemory_write_32(@, AlignDown(ewram_offset(addr), 4), value)]
          [] page = PAGE_IWRAM ->
                [sb EXCEPT !.internal_work_ram =
                    BoxedMemory_write_32(@, AlignDown(iwram_offset(addr), 4), value)]
          [] page = PAGE_IOMEM ->
                [sb EXCEPT !.io =
                    IoDevices_write_32(@,
                        IF AlignDown(LowBits(addr, 65536), 4) = 32768
                        THEN 2048
                        ELSE AlignDown(LowBits(addr, 2048), 4),
                        value)]
          [] page \in {PAGE_PALRAM, PAGE_VRAM, PAGE_OAM} ->
                [sb EXCEPT !.gpu = Gpu_write_32(@, addr, value)]
          [] page \in {PAGE_GAMEPAK_WS0, PAGE_GAMEPAK_WS2_HI, PAGE_SRAM_LO, PAGE_SRAM_HI} ->
                [sb EXCEPT !.cartridge = Cartridge_write_32(@, addr, value)]
          [] OTHER -> sb

\* (mutant) the work-RAM arms keep bit 0 of the address
write_16_unaligned(sb, addr, value) ==
    LET page == Page(addr)
    IN  CASE page = PAGE_BIOS -> sb
          [] page = PAGE_EWRAM ->
                [sb EXCEPT !.onboard_work_ram =
                    BoxedMemory_write_16(@, ewram_offset(addr), value)]
          [] page = PAGE_IWRAM ->
                [sb EXCEPT !.internal_work_ram =
                    BoxedMemory_write_16(@, iwram_offset(addr), value)]
          [] page = PAGE_IOMEM ->
                [sb EXCEPT !.io =
                    IoDevices_write_16(@,
                        IF AlignDown(LowBits(addr, 65536), 2) = 32768
                        THEN 2048
                        ELSE AlignDown(LowBits(addr, 2048), 2),
                        value)]
          [] page \in {PAGE_PALRAM, PAGE_VRAM, PAGE_OAM} ->
                [sb EXCEPT !.gpu = Gpu_write_16(@, addr, value)]
          [] page \in {PAGE_GAMEPAK_WS0, PAGE_GAMEPAK_WS2_HI, PAGE_SRAM_LO, PAGE_SRAM_HI} ->
                [sb EXCEPT !.cartridge = Cartridge_write_16(@, addr, value)]
          [] OTHER -> sb

write_16(sb, addr, value) ==
    LET page == Page(addr)
    IN  CASE page = PAGE_BIOS -> sb
          [] page = PAGE_EWRAM ->
                [sb EXCEPT !.onboard_work_ram =
                    BoxedMemory_write_16(@, AlignDown(ewram_offset(addr), 2), value)]
          [] page = PAGE_IWRAM ->
                [sb EXCEPT !.internal_work_ram =
                    BoxedMemory_write_16(@, AlignDown(iwram_offset(addr), 2), value)]
          [] page = PAGE_IOMEM ->
                [sb EXCEPT !.io =
                    IoDevices_write_16(@,
                        IF AlignDown(LowBits(addr, 65536), 2) = 32768
                        THEN 2048
                        ELSE AlignDown(LowBits(addr, 2048), 2),
                        value)]
          [] page \in {PAGE_PALRAM, PAGE_VRAM, PAGE_OAM} ->
                [sb EXCEPT !.gpu = Gpu_write_16(@, addr, value)]
          [] page \in {PAGE_GAMEPAK_WS0, PAGE_GAMEPAK_WS2_HI, PAGE_SRAM_LO, PAGE_SRAM_HI} ->
                [sb EXCEPT !.cartridge = Cartridge_write_16(@, addr, value)]
          [] OTHER -> sb

write_8(sb, addr, value) ==
    LET page == Page(addr)
    IN  CASE page = PAGE_BIOS -> sb
          [] page = PAGE_EWRAM ->
                [sb EXCEPT !.onboard_work_ram =
                    BoxedMemory_write_8(@, ewram_offset(addr), value)]
          [] page = PAGE_IWRAM ->
                [sb EXCEPT !.internal_work_ram =
                    BoxedMemory_write_8(@, iwram_offset(addr), value)]
          [] page = PAGE_IOMEM ->
                [sb EXCEPT !.io =
                    IoDevices_write_8(@,
                        IF LowBits(addr, 65536) = 32768
                        THEN 2048
                        ELSE LowBits(addr, 2048),
                        value)]
          [] page \in {PAGE_PALRAM, PAGE_VRAM, PAGE_OAM} ->
                [sb EXCEPT !.gpu = Gpu_write_8(@, addr, value)]
          [] page \in {PAGE_GAMEPAK_WS0, PAGE_GAMEPAK_WS2_HI, PAGE_SRAM_LO, PAGE_SRAM_HI} ->
                [sb EXCEPT !.cartridge = Cartridge_write_8(@, addr, value)]
          [] OTHER -> sb

(***************************************************************************)
(* Bounds                                                                  *)
(***************************************************************************)

\* depth to which the open-bus recursion is followed before the read is
\* reported as not returning
MaxNest == 2

\* bits the EEPROM controller is fed in one run
MaxEepromBits == 2

\* the cycle count up to which the CPU is given another instruction
MaxCycles == 12

(***************************************************************************)
(* DebugRead                                                               *)
(***************************************************************************)

\* BoxedMemory::debug_read_8 on the BIOS image: an index into its 16 KiB
Bios_debug_read_8(sb, addr) ==
    IF addr < 16384 THEN Returned(sb.bios_value, bios(addr))
    ELSE NotReturned(sb.bios_value)

\* self.bytes[offset]: a checked index, which panics beyond the ROM
Cartridge_debug_read_8(sb, addr) ==
    LET offset == RomOffset(addr)
    IN  IF offset < sb.cartridge.size
        THEN Returned(sb.bios_value, rom_bytes(offset))
        ELSE NotReturned(sb.bios_value)

\* (mutant) the debug read goes through the CPU's read path
debug_read_8_as_read_8(sb, addr) == read_8(sb, cpu, addr, MaxNest)

debug_read_8(sb, addr) ==
    LET page == Page(addr)
    IN  CASE page = PAGE_BIOS -> Bios_debug_read_8(sb, addr)
          [] page = PAGE_EWRAM ->
                Returned(sb.bios_value,
                    BoxedMemory_read_8(sb.onboard_work_ram, LowBits(addr, 262144)))
          [] page = PAGE_IWRAM ->
                Returned(sb.bios_value,
                    BoxedMemory_read_8(sb.internal_work_ram, LowBits(addr, 32768)))
          [] page = PAGE_IOMEM ->
                Returned(sb.bios_value,
                    IoDevices_read_8(sb.io,
                        IF LowBits(addr, 65536) = 32768 THEN 2048
                        ELSE LowBits(addr, 2048)))
          [] page \in {PAGE_PALRAM, PAGE_VRAM, PAGE_OAM} ->
                Returned(sb.bios_value, Gpu_read_8(sb.gpu, addr))
          [] page \in PAGE_GAMEPAK_WS0 .. PAGE_SRAM_HI ->
                Cartridge_debug_read_8(sb, addr)
          [] OTHER -> Returned(sb.bios_value, 0)

(***************************************************************************)
(* Core: registers and cycle accounting                                    *)
(*                                                                         *)
(* m is the machine an instruction runs on: [sb, cpu, core, action, ok],   *)
(* action the CpuPipelineAction returned, ok FALSE for an Err result       *)
(***************************************************************************)

REG_PC == 15

\* `let x = e;` followed by F(x): e is evaluated once
Bind(e, F(_)) == CHOOSE r \in {F(x) : x \in {e}} : TRUE

\* a u32 below 2^31 as an address, and back
AddrToWord(n) ==
    <<n % 256, (n \div 256) % 256, (n \div 65536) % 256, n \div 16777216>>

WordToAddr(w) == w[1] + 256 * w[2] + 65536 * w[3] + 16777216 * w[4]

\* val & !1
ClearBit0(w) == <<w[1] - (w[1] % 2), w[2], w[3], w[4]>>

word_size(c) == IF c.state = "ARM" THEN 4 ELSE 2

get_reg(m, r) == IF r = REG_PC THEN AddrToWord(m.cpu.pc) ELSE m.core.gpr[r]

set_reg(m, r, val) ==
    IF r = REG_PC
    THEN [m EXCEPT !.cpu.pc = WordToAddr(ClearBit0(val))]
    ELSE [m EXCEPT !.core.gpr[r] = val]

Charge(access, width, addr) == [access |-> access, width |-> width, addr |-> addr]

\* self.cycles += sysbus.get_cycles(addr, access, width)
add_cycles(m, addr, access, width) ==
    [m EXCEPT !.core.cycles = @ + get_cycles(m.sb, addr, access, width),
              !.core.charged = Append(@, Charge(access, width, addr))]

\* an internal cycle
add_cycle(m) ==
    [m EXCEPT !.core.cycles = @ + 1,
              !.core.charged = Append(@, Charge("Internal", 0, 0))]

Ok(m, action) == [m EXCEPT !.action = action]

Err(m) == [m EXCEPT !.action = "Err", !.ok = FALSE]

check_arm_cond(m, cond) ==
    CASE cond = "AL" -> TRUE
      [] cond = "EQ" -> m.core.Z
      [] cond = "NE" -> ~m.core.Z

(***************************************************************************)
(* Branches                                                                *)
(***************************************************************************)

\* BL: set_reg(14, self.pc & !0b1)
link_register(m, insn) ==
    IF insn.link THEN set_reg(m, 14, ClearBit0(AddrToWord(m.cpu.pc))) ELSE m

\* +2S at the new pc, and Flush
refill_pipeline(m) ==
    Bind(add_cycles(m, m.cpu.pc, "Seq", 32), LAMBDA m1 :
    Ok(add_cycles(m1, m1.cpu.pc + word_size(m1.cpu), "Seq", 32), "Flush"))

\* (mutant) the non-sequential access is charged once pc has moved
exec_b_bl_charge_after(m, insn) ==
    Bind(link_register(m, insn), LAMBDA m1 :
    Bind([m1 EXCEPT !.cpu.pc = @ + insn.offset], LAMBDA m2 :
    Bind(add_cycles(m2, m2.cpu.pc, "NonSeq", 32), LAMBDA m3 :
    refill_pipeline(m3))))

\* insn.offset is branch_offset(); the operands drawn keep pc + offset
\* within 0 .. 2^31 - 1, where wrapping_add is the sum
exec_b_bl(m, insn) ==
    Bind(link_register(m, insn), LAMBDA m1 :
    Bind(add_cycles(m1, m1.cpu.pc, "NonSeq", 32), LAMBDA m2 :
    Bind([m2 EXCEPT !.cpu.pc = @ + insn.offset], LAMBDA m3 :
    refill_pipeline(m3))))

exec_bx(m, insn) ==
    Bind(get_reg(m, insn.rn), LAMBDA rn :
    Bind([m EXCEPT !.cpu.state = IF rn[1] % 2 = 1 THEN "THUMB" ELSE "ARM"],
         LAMBDA m1 :
    Bind(add_cycles(m1, m1.cpu.pc, "NonSeq", 32), LAMBDA m2 :
    Bind([m2 EXCEPT !.cpu.pc = WordToAddr(ClearBit0(rn))], LAMBDA m3 :
    refill_pipeline(m3)))))

\* Exception::SoftwareInterrupt: the CPU enters ARM state at the vector 0x08
exception_swi(m) == [m EXCEPT !.cpu.pc = 8, !.cpu.state = "ARM"]

exec_swi(m, insn) == Ok(exception_swi(m), "Flush")

(***************************************************************************)
(* 32-bit arithmetic on byte tuples                                        *)
(***************************************************************************)

\* bit i (0 = least significant) of a word
Bit(w, i) == (w[(i \div 8) + 1] \div (2 ^ (i % 8))) % 2

Bits(w) == [i \in 0 .. 31 |-> Bit(w, i)]

ByteOfBits(b, k) ==
    b[k] + 2 * b[k + 1] + 4 * b[k + 2] + 8 * b[k + 3] + 16 * b[k + 4]
        + 32 * b[k + 5] + 64 * b[k + 6] + 128 * b[k + 7]

FromBits(b) ==
    <<ByteOfBits(b, 0), ByteOfBits(b, 8), ByteOfBits(b, 16), ByteOfBits(b, 24)>>

\* a.wrapping_add(b)
wrapping_add(a, b) ==
    LET s1 == a[1] + b[1]
        s2 == a[2] + b[2] + (s1 \div 256)
        s3 == a[3] + b[3] + (s2 \div 256)
        s4 == a[4] + b[4] + (s3 \div 256)
    IN  <<s1 % 256, s2 % 256, s3 % 256, s4 % 256>>

\* a.wrapping_sub(b)
wrapping_sub(a, b) ==
    LET d1 == 256 + a[1] - b[1]
        d2 == 256 + a[2] - b[2] - (1 - (d1 \div 256))
        d3 == 256 + a[3] - b[3] - (1 - (d2 \div 256))
        d4 == 256 + a[4] - b[4] - (1 - (d3 \div 256))
    IN  <<d1 % 256, d2 % 256, d3 % 256, d4 % 256>>

\* a small non-negative number as an i32
SmallWord(n) == <<n, 0, 0, 0>>

\* a < b as u32
UnsignedLess(a, b) ==
    \/ a[4] < b[4]
    \/ a[4] = b[4] /\ a[3] < b[3]
    \/ a[4] = b[4] /\ a[3] = b[3] /\ a[2] < b[2]
    \/ a[4] = b[4] /\ a[3] = b[3] /\ a[2] = b[2] /\ a[1] < b[1]

IsNegative(w) == w[4] >= 128

\* a < b as i32
SignedLess(a, b) ==
    IF IsNegative(a) = IsNegative(b) THEN UnsignedLess(a, b) ELSE IsNegative(a)

BitAnd(a, b) == FromBits([i \in 0 .. 31 |-> Bit(a, i) * Bit(b, i)])
BitOr(a, b) ==
    FromBits([i \in 0 .. 31 |-> IF Bit(a, i) + Bit(b, i) > 0 THEN 1 ELSE 0])
BitXor(a, b) == FromBits([i \in 0 .. 31 |-> (Bit(a, i) + Bit(b, i)) % 2])
BitNot(a) == <<255 - a[1], 255 - a[2], 255 - a[3], 255 - a[4]>>

\* u32::rotate_right(n)
rotate_right(w, n) == FromBits([i \in 0 .. 31 |-> Bit(w, (i + n) % 32)])

ArmShiftTypes == {"LSL", "LSR", "ASR", "ROR"}

\* wrapping_shl and wrapping_shr take the amount mod 32
barrel_shift(val, amount, shift) ==
    LET n == amount % 32
    IN  CASE shift = "LSL" ->
                FromBits([i \in 0 .. 31 |-> IF i >= n THEN Bit(val, i - n) ELSE 0])
          [] shift = "LSR" ->
                FromBits([i \in 0 .. 31 |-> IF i + n <= 31 THEN Bit(val, i + n) ELSE 0])
          [] shift = "ASR" ->
                FromBits([i \in 0 .. 31 |->
                            IF i + n <= 31 THEN Bit(val, i + n) ELSE Bit(val, 31)])
          [] shift = "ROR" -> rotate_right(val, amount)

\* the shifted value, or ok = FALSE for CpuError::IllegalInstruction
register_shift(m, reg, shift) ==
    LET val == get_reg(m, reg)
    IN  IF shift.by = "ShiftAmount"
        THEN [ok |-> TRUE, value |-> barrel_shift(val, shift.amount, shift.type)]
        ELSE IF shift.rs # REG_PC
             THEN [ok |-> TRUE,
                   value |-> barrel_shift(val, get_reg(m, shift.rs)[1], shift.type)]
             ELSE [ok |-> FALSE, value |-> ZeroWord]

(***************************************************************************)
(* The ALU                                                                 *)
(***************************************************************************)

ArmOpCodes ==
    {"AND", "EOR", "SUB", "RSB", "ADD", "ADC", "SBC", "RSC", "TST", "TEQ",
     "CMP", "CMN", "ORR", "MOV", "BIC", "MVN"}

\* the result and the carry out
alu_sub_update_carry(a, b) ==
    LET res == wrapping_sub(a, b)
    IN  [res |-> res, carry |-> SignedLess(a, res)]

alu_add_update_carry(a, b) ==
    LET res == wrapping_sub(a, b)
    IN  [res |-> res, carry |-> SignedLess(res, a)]

FlagWord(flag) == SmallWord(IF flag THEN 1 ELSE 0)

\* the result and carry of an opcode
alu_result(m, opcode, op1, op2) ==
    LET C == FlagWord(m.core.C)
        OneMinusC == FlagWord(~m.core.C)
        Logic(res) == [res |-> res, carry |-> m.core.C]
    IN  CASE opcode \in {"AND", "TST"} -> Logic(BitAnd(op1, op2))
          [] opcode \in {"EOR", "TEQ"} -> Logic(BitXor(op1, op2))
          [] opcode \in {"SUB", "CMP"} -> alu_sub_update_carry(op1, op2)
          [] opcode = "RSB" -> alu_sub_update_carry(op2, op1)
          [] opcode \in {"ADD", "CMN"} -> alu_add_update_carry(op1, op2)
          [] opcode = "ADC" ->
                alu_add_update_carry(op1, wrapping_add(op2, C))
          [] opcode = "SBC" ->
                alu_add_update_carry(op1, wrapping_sub(op2, OneMinusC))
          [] opcode = "RSC" ->
                alu_add_update_carry(op2, wrapping_sub(op1, OneMinusC))
          [] opcode = "ORR" -> Logic(BitOr(op1, op2))
          [] opcode = "MOV" -> Logic(op2)
          [] opcode = "BIC" -> Logic(BitAnd(op1, BitNot(op2)))
          [] opcode = "MVN" -> Logic(BitNot(op2))

\* the machine with its flags set, and the Option<i32> returned
alu(m, opcode, op1, op2, set_cond_flags) ==
    Bind(alu_result(m, opcode, op1, op2), LAMBDA r :
        [m |-> IF set_cond_flags
               THEN [m EXCEPT !.core.N = IsNegative(r.res),
                              !.core.Z = (r.res = ZeroWord),
                              !.core.C = r.carry]
               ELSE m,
         some |-> opcode \notin {"TST", "TEQ", "CMP", "CMN"},
         result |-> r.res])

\* ArmOpCode::is_setting_flags
is_setting_flags(opcode) == opcode \in {"TST", "TEQ", "CMP", "CMN"}

(***************************************************************************)
(* Data processing                                                         *)
(***************************************************************************)

\* operand2 as an i32, or ok = FALSE
operand2(m, op2) ==
    IF op2.kind = "RotatedImmediate"
    THEN [ok |-> TRUE,
          value |-> rotate_right(SmallWord(op2.immediate), op2.rotate)]
    ELSE register_shift(m, op2.reg, op2.shift)

\* set_reg(rd, result), with +1S and Flush when rd is PC, then the final +1S
write_result(m, rd, a) ==
    IF a.some
    THEN Bind(set_reg(m, rd, a.result), LAMBDA m1 :
         IF rd = REG_PC
         THEN Bind(add_cycles(m1, m1.cpu.pc, "Seq", 32), LAMBDA m2 :
              Ok(add_cycles(m2, m2.cpu.pc + word_size(m2.cpu), "Seq", 32), "Flush"))
         ELSE Ok(add_cycles(m1, m1.cpu.pc + word_size(m1.cpu), "Seq", 32), "IncPC"))
    ELSE Ok(add_cycles(m, m.cpu.pc + word_size(m.cpu), "Seq", 32), "IncPC")

exec_data_processing(m, insn) ==
    Bind(get_reg(m, insn.rn), LAMBDA op1 :
    Bind(IF insn.rd = REG_PC THEN add_cycles(m, m.cpu.pc, "NonSeq", 32) ELSE m,
         LAMBDA m1 :
    Bind(IF insn.op2.kind = "RotatedImmediate" THEN m1 ELSE add_cycle(m1),
         LAMBDA m2 :
    Bind(operand2(m2, insn.op2), LAMBDA op2 :
        IF ~op2.ok THEN Err(m2)
        ELSE Bind(alu(m2, insn.opcode, op1, op2.value,
                      is_setting_flags(insn.opcode) \/ insn.set_cond),
                  LAMBDA a : write_result(a.m, insn.rd, a))))))

(***************************************************************************)
(* Single data transfer                                                    *)
(***************************************************************************)

\* the offset as an i32
get_rn_offset(m, insn) ==
    IF insn.ldr_offset.kind = "ImmediateValue"
    THEN insn.ldr_offset.value
    ELSE LET abs == register_shift(m, insn.ldr_offset.reg, insn.ldr_offset.shift).value
         IN  IF insn.ldr_offset.added THEN abs ELSE wrapping_sub(ZeroWord, abs)

\* sysbus.read_8 / read_32 by the CPU: the bus after it and the data as u32
Load(m, size, addr) ==
    LET r == IF size = 1
             THEN read_8(m.sb, m.cpu, WordToAddr(addr), MaxNest)
             ELSE read_32(m.sb, m.cpu, WordToAddr(addr), MaxNest)
    IN  [m |-> [m EXCEPT !.sb.bios_value = r.bios_value, !.ok = r.returned],
         data |-> IF size = 1 /\ r.returned THEN SmallWord(r.value) ELSE r.value]

\* the load arm: +1N, the read, +1S, set_reg, +1I, and +1S +1N when rd is PC
exec_ldr(m, insn, addr, dest, width) ==
    Bind(add_cycles(m, WordToAddr(dest), "NonSeq", width), LAMBDA l1 :
    Bind(Load(l1, insn.transfer_size, addr), LAMBDA ld :
        IF ~ld.m.ok THEN ld.m
        ELSE
    Bind(add_cycles(ld.m, ld.m.cpu.pc + word_size(ld.m.cpu), "Seq", 32),
         LAMBDA l2 :
    Bind(add_cycle(set_reg(l2, insn.rd, ld.data)), LAMBDA l3 :
        IF insn.rd = REG_PC
        THEN Bind(add_cycles(l3, l3.cpu.pc, "Seq", 32), LAMBDA l4 :
             Ok(add_cycles(l4, l4.cpu.pc + word_size(l4.cpu), "NonSeq", 32),
                "Flush"))
        ELSE Ok(l3, "IncPC")))))

\* the store arm: +1N, value = get_reg(rn), +1N, the write
exec_str(m, insn, addr, dest, width) ==
    Bind(add_cycles(m, WordToAddr(addr), "NonSeq", 32), LAMBDA s1 :
    Bind(get_reg(s1, insn.rn), LAMBDA value :
    Bind(add_cycles(s1, WordToAddr(dest), "NonSeq", width), LAMBDA s2 :
        Ok([s2 EXCEPT !.sb =
                IF insn.transfer_size = 1
                THEN write_8(@, WordToAddr(addr), AsU8(value))
                ELSE write_32(@, WordToAddr(addr), value)],
           "IncPC"))))

\* if insn.write_back_flag() { set_reg(rn, effective_addr) }
write_back_base(m, insn, effective_addr) ==
    IF m.ok /\ insn.write_back THEN set_reg(m, insn.rn, effective_addr) ELSE m

exec_ldr_str(m, insn) ==
    IF insn.write_back /\ insn.rd = insn.rn THEN Err(m)
    ELSE
    Bind(IF insn.rn = REG_PC
         THEN wrapping_add(get_reg(m, insn.rn), SmallWord(8))
         ELSE get_reg(m, insn.rn), LAMBDA base :
    Bind(get_reg(m, insn.rd), LAMBDA dest :
    Bind(wrapping_add(base, get_rn_offset(m, insn)), LAMBDA effective_addr :
    Bind(IF insn.pre_index THEN effective_addr ELSE base, LAMBDA addr :
    Bind(IF insn.load
         THEN exec_ldr(m, insn, addr, dest,
                       IF insn.transfer_size = 1 THEN 8 ELSE 32)
         ELSE exec_str(m, insn, addr, dest,
                       IF insn.transfer_size = 1 THEN 8 ELSE 32),
         LAMBDA done :
    write_back_base(done, insn, effective_addr))))))

(***************************************************************************)
(* ARM dispatch                                                            *)
(***************************************************************************)

ArmFormats == {"BX", "B_BL", "DP", "SWI", "LDR_STR"}

exec_arm(m, insn) ==
    IF ~check_arm_cond(m, insn.cond)
    THEN Bind(add_cycles(m, insn.pc + word_size(m.cpu), "Seq", 32), LAMBDA m1 :
         Ok(add_cycle(m1), "IncPC"))
    ELSE CASE insn.fmt = "BX" -> exec_bx(m, insn)
           [] insn.fmt = "B_BL" -> exec_b_bl(m, insn)
           [] insn.fmt = "DP" -> exec_data_processing(m, insn)
           [] insn.fmt = "SWI" -> exec_swi(m, insn)
           [] insn.fmt = "LDR_STR" -> exec_ldr_str(m, insn)
           [] OTHER -> Err(m)

(***************************************************************************)
(* Construction                                                            *)
(***************************************************************************)

Cartridge_new(size, has_gpio, kind) ==
    [size |-> size,
     gpio |-> [present |-> has_gpio, regs |-> [r \in GpioRegs |-> <<0, 0>>]],
     backup |-> [kind |-> kind, mem |-> EmptyMemory, mode |-> "Idle",
                 chip_id |-> FALSE, erase |-> FALSE, bank |-> 0,
                 banks |-> 1, rx |-> <<>>]]

SysBus_new(waitcnt, cartridge) ==
    [bios_value |-> ZeroWord,
     io |-> EmptyMemory,
     gpu |-> EmptyMemory,
     onboard_work_ram |-> EmptyMemory,
     internal_work_ram |-> EmptyMemory,
     cartridge |-> cartridge,
     cycle_luts |-> update_gamepak_waitstates(
                        CycleLookupTables_init(CycleLookupTables_default), waitcnt)]

CpuReset ==
    [pc |-> 0, state |-> "ARM", decoded |-> ZeroWord, prefetched |-> ZeroWord]

\* Core after construction: the registers r0..r14, the flags and the cycle
\* counter; `charged` lists what the instruction being executed has charged
CoreReset ==
    [gpr |-> [r \in 0 .. 14 |-> ZeroWord],
     N |-> FALSE, Z |-> FALSE, C |-> FALSE, V |-> FALSE,
     cycles |-> 0, charged |-> <<>>]

Done(op, addr, value, returned, waitcnt) ==
    [op |-> op, addr |-> addr, value |-> value, returned |-> returned,
     waitcnt |-> waitcnt]

(***************************************************************************)
(* Inputs                                                                  *)
(***************************************************************************)

RomSizes == {1048576, 33554432}
BackupKinds == {"Sram", "Flash", "Eeprom", "Undetected"}
Cartridges ==
    {Cartridge_new(size, g, k) : size \in RomSizes, g \in BOOLEAN, k \in BackupKinds}
PlainCartridge == Cartridge_new(1048576, FALSE, "Undetected")

Values8 == {66}
Values16 == {<<239, 190>>}
Values32 == {<<239, 190, 173, 222>>}

\* EWRAM: 0x02000004, 0x02000005 and the mirror 0x02FC0006
\* IWRAM: 0x03000004 and the mirror 0x03FF8005
EwramAddrs == {33554436, 33554437, 50069510}
IwramAddrs == {50331652, 67076101}
RamAddrs == EwramAddrs \cup IwramAddrs

\* BIOS in range: 0x0, 0x5, 0x3FFE, 0x3FFF; beyond the image: 0x4000, 0x4003
BiosAddrs == {0, 5, 16382, 16383}
BiosBeyondAddrs == {16384, 16387}
\* unmapped pages: 0x10000000..3, 0x7F000002
UnmappedAddrs == {268435456, 268435457, 268435458, 268435459, 2130706434}
OpenBusAddrs == BiosBeyondAddrs \cup UnmappedAddrs
\* OAM: 0x07000006, the half-word a THUMB pc of 0x07000000 has at pc + 6
OamAddrs == {117440518}

\* ROM: 0x08000000, 0x080000C2, 0x080000C4 (GPIO data), 0x080000C5,
\* 0x08100000 (past a 1 MiB ROM), 0x09000000, 0x0C0000C6 (GPIO direction),
\* 0x0D000000, 0x0D0000C8 (GPIO control), 0x0DFFFEFE, 0x0DFFFF00 (EEPROM)
RomAddrs ==
    {134217728, 134217922, 134217924, 134217925, 135266304, 150994944,
     201326790, 218103808, 218104008, 234880766, 234880768}

\* pc: BIOS 0x100, 0x102, 0x3FFC; page 0 past the image 0x4000;
\* EWRAM 0x02000000; IWRAM 0x03000000, 0x03000002; IOMEM 0x04000000;
\* VRAM 0x06000002; OAM 0x07000000, 0x07000002; ROM 0x08000000, 0x0D000000
PcValues ==
    {256, 258, 16380, 16384, 33554432, 50331648, 50331650, 67108864,
     100663298, 117440512, 117440514, 134217728, 218103808}

\* <<decoded, prefetched>>
Pipelines ==
    {<<<<17, 34, 51, 68>>, <<170, 187, 204, 221>>>>,
     <<<<1, 2, 3, 4>>, <<5, 6, 7, 8>>>>}

CpuStates ==
    {[pc |-> pc, state |-> st, decoded |-> pl[1], prefetched |-> pl[2]] :
        pc \in PcValues, st \in {"ARM", "THUMB"}, pl \in Pipelines}

\* instructions: the decoded fields exec.rs reads
NoShift == [by |-> "ShiftAmount", amount |-> 0, rs |-> 0, type |-> "LSL"]
ShiftByAmount(amount, type) ==
    [by |-> "ShiftAmount", amount |-> amount, rs |-> 0, type |-> type]
ShiftByRegister(rs, type) ==
    [by |-> "ShiftRegister", amount |-> 0, rs |-> rs, type |-> type]
RotatedImmediate(immediate, rotate) ==
    [kind |-> "RotatedImmediate", immediate |-> immediate, rotate |-> rotate,
     reg |-> 0, shift |-> NoShift]
ShiftedRegister(reg, shift) ==
    [kind |-> "ShiftedRegister", immediate |-> 0, rotate |-> 0,
     reg |-> reg, shift |-> shift]
ImmediateValue(value) ==
    [kind |-> "ImmediateValue", value |-> value, reg |-> 0, shift |-> NoShift,
     added |-> TRUE]
ShiftedOffset(reg, shift, added) ==
    [kind |-> "ShiftedRegister", value |-> ZeroWord, reg |-> reg,
     shift |-> shift, added |-> added]
ArmInstruction ==
    [fmt |-> "DP", cond |-> "AL", pc |-> 0, link |-> FALSE, offset |-> 0,
     rn |-> 0, rd |-> 0, opcode |-> "MOV", set_cond |-> FALSE,
     op2 |-> RotatedImmediate(0, 0), load |-> FALSE, transfer_size |-> 4,
     pre_index |-> TRUE, write_back |-> FALSE,
     ldr_offset |-> ImmediateValue(ZeroWord)]
ArmConds == {"AL", "EQ"}
Branch(cond, link, offset) ==
    [ArmInstruction EXCEPT !.fmt = "B_BL", !.cond = cond, !.link = link,
                           !.offset = offset]
BranchExchange(cond, rn) ==
    [ArmInstruction EXCEPT !.fmt = "BX", !.cond = cond, !.rn = rn]

\* branches: forward 16, to the ROM (IWRAM + 0x05000000); r0 = 0x03000101
\* (THUMB), r1 = 0x08000100, r2 = 0x03000040
BranchOffsets == {16, 83886080}
BranchInsns ==
    {Branch(cond, link, offset) :
        cond \in ArmConds, link \in BOOLEAN, offset \in BranchOffsets}
    \cup {BranchExchange(cond, rn) : cond \in ArmConds, rn \in {0, 1, 2}}
BranchRegisters ==
    [r \in 0 .. 14 |->
        CASE r = 0 -> <<1, 1, 0, 3>>
          [] r = 1 -> <<0, 1, 0, 8>>
          [] r = 2 -> <<64, 0, 0, 3>>
          [] OTHER -> ZeroWord]


\* data processing: r1 = 7, r2 = 3, r3 = 0xFFFFFFFF, r4 = 0x80000000,
\* r6 = 4 (a shift amount), r7 = 0x08000040 (a branch target)
DataProcessing(opcode, rn, rd, op2, set_cond) ==
    [ArmInstruction EXCEPT !.fmt = "DP", !.opcode = opcode, !.rn = rn,
                           !.rd = rd, !.op2 = op2, !.set_cond = set_cond]
DpOperands ==
    {<<1, RotatedImmediate(3, 0)>>,
     <<3, RotatedImmediate(3, 0)>>,
     <<1, ShiftedRegister(2, ShiftByAmount(2, "LSL"))>>,
     <<3, ShiftedRegister(4, ShiftByRegister(6, "ASR"))>>}
DpInsns ==
    {DataProcessing(opcode, ops[1], 5, ops[2], FALSE) :
        opcode \in {"ADD", "ADC", "SUB", "CMP", "CMN", "TST", "TEQ"},
        ops \in DpOperands}
    \cup {DataProcessing("MOV", 0, REG_PC, RotatedImmediate(8, 8), FALSE),
          DataProcessing("MOV", 0, REG_PC, ShiftedRegister(7, NoShift), FALSE),
          DataProcessing("CMP", 1, REG_PC, RotatedImmediate(3, 0), FALSE),
          DataProcessing("MOV", 0, 5, ShiftedRegister(2, ShiftByRegister(REG_PC, "LSL")), FALSE)}
DpRegisters ==
    [r \in 0 .. 14 |->
        CASE r = 1 -> <<7, 0, 0, 0>>
          [] r = 2 -> <<3, 0, 0, 0>>
          [] r = 3 -> <<255, 255, 255, 255>>
          [] r = 4 -> <<0, 0, 0, 128>>
          [] r = 6 -> <<4, 0, 0, 0>>
          [] r = 7 -> <<64, 0, 0, 8>>
          [] OTHER -> ZeroWord]


\* single data transfers: r0 = 0x03000010 (the base), r1 = 0x02000020,
\* r2 = 0x08000040, r3 = 4 (an offset)
SingleDataTransfer(load, transfer_size, rn, rd, offset, write_back) ==
    [ArmInstruction EXCEPT !.fmt = "LDR_STR", !.load = load,
                           !.transfer_size = transfer_size, !.rn = rn,
                           !.rd = rd, !.ldr_offset = offset,
                           !.write_back = write_back]
LdrStrInsns ==
    {SingleDataTransfer(load, size, 0, rd, ImmediateValue(SmallWord(4)), FALSE) :
        load \in BOOLEAN, size \in {1, 4}, rd \in {1, 2}}
    \cup {SingleDataTransfer(TRUE, 4, 0, REG_PC, ImmediateValue(SmallWord(4)), FALSE),
          SingleDataTransfer(TRUE, 4, 0, 1, ShiftedOffset(3, NoShift, TRUE), FALSE),
          SingleDataTransfer(FALSE, 4, 0, 2, ImmediateValue(SmallWord(8)), TRUE),
          SingleDataTransfer(TRUE, 4, 0, 0, ImmediateValue(SmallWord(4)), TRUE)}
LdrStrRegisters ==
    [r \in 0 .. 14 |->
        CASE r = 0 -> <<16, 0, 0, 3>>
          [] r = 1 -> <<32, 0, 0, 2>>
          [] r = 2 -> <<64, 0, 0, 8>>
          [] r = 3 -> <<4, 0, 0, 0>>
          [] OTHER -> ZeroWord]

(***************************************************************************)
(* History: the word of the most recent in-range BIOS read made while      *)
(* pc < 0x4000, directly or as the open-bus path's read_16(pc + 6)         *)
(***************************************************************************)

IsOpenBusAddr(addr) ==
    \/ Page(addr) > 15
    \/ Page(addr) = 1
    \/ Page(addr) = 0 /\ addr >= 16384

BiosReadAfter(addr) ==
    IF addr < 16384
    THEN IF cpu.pc < 16384 THEN bios_read_32(AlignDown(addr, 4)) ELSE bios_read
    ELSE IF /\ IsOpenBusAddr(addr)
            /\ cpu.state = "THUMB" /\ cpu.pc % 4 = 0
            /\ cpu.pc + 6 < 16384
         THEN bios_read_32(AlignDown(cpu.pc + 6, 4))
         ELSE bios_read

(***************************************************************************)
(* Actions                                                                 *)
(***************************************************************************)

WaitcntWritten(w) ==
    /\ last.returned
    /\ sysbus' = on_waitcnt_written(sysbus, w)
    /\ last' = Done("on_waitcnt_written", 0, 0, TRUE, w)
    /\ UNCHANGED <<cpu, core, bios_read>>

Read(op, r, addr) ==
    /\ last.returned
    /\ sysbus' = [sysbus EXCEPT !.bios_value = r.bios_value]
    /\ last' = Done(op, addr, r.value, r.returned, WaitControlReset)
    /\ bios_read' = BiosReadAfter(addr)
    /\ UNCHANGED <<cpu, core>>

Read32(addr) == Read("read_32", read_32(sysbus, cpu, addr, MaxNest), addr)
Read16(addr) == Read("read_16", read_16(sysbus, cpu, addr, MaxNest), addr)
Read8(addr) == Read("read_8", read_8(sysbus, cpu, addr, MaxNest), addr)

Write(op, sb, addr, value) ==
    /\ last.returned
    /\ Len(sb.cartridge.backup.rx) <= MaxEepromBits
    /\ sysbus' = sb
    /\ last' = Done(op, addr, value, TRUE, WaitControlReset)
    /\ UNCHANGED <<cpu, core, bios_read>>

Write32(addr, value) == Write("write_32", write_32(sysbus, addr, value), addr, value)
Write16(addr, value) == Write("write_16", write_16(sysbus, addr, value), addr, value)
Write8(addr, value) == Write("write_8", write_8(sysbus, addr, value), addr, value)

DebugRead8(addr) ==
    /\ last.returned
    /\ LET r == debug_read_8(sysbus, addr)
       IN  /\ sysbus' = [sysbus EXCEPT !.bios_value = r.bios_value]
           /\ last' = Done("debug_read_8", addr, r.value, r.returned, WaitControlReset)
    /\ UNCHANGED <<cpu, core, bios_read>>

\* the CPU executes one ARM instruction; pc is two words past the instruction
\* (the pipeline's fetch address). `last` keeps the instruction, the action
\* returned and the cycle count, registers and carry flag from before it
ExecArm(insn) ==
    /\ last.returned
    /\ cpu.state = "ARM"
    /\ cpu.pc >= 8
    /\ core.cycles <= MaxCycles
    /\ \E m \in {[sb |-> sysbus, cpu |-> cpu,
                  core |-> [core EXCEPT !.charged = <<>>],
                  action |-> "None", ok |-> TRUE]} :
       \E i \in {[insn EXCEPT !.pc = cpu.pc - 8]} :
       \E r \in {exec_arm(m, i)} :
           /\ sysbus' = r.sb
           /\ cpu' = r.cpu
           /\ core' = r.core
           /\ bios_read' = r.sb.bios_value
           /\ last' = Done(i.fmt, cpu.pc,
                           [insn |-> i, action |-> r.action,
                            executed |-> check_arm_cond(m, i.cond),
                            cycles |-> core.cycles, gpr |-> core.gpr,
                            C |-> core.C],
                           r.ok, WaitControlReset)

\* the CPU moves on: a new pc, state and pipeline
CpuStep(c) ==
    /\ last.returned
    /\ c # cpu
    /\ cpu' = c
    /\ last' = Done("cpu", 0, 0, TRUE, WaitControlReset)
    /\ UNCHANGED <<sysbus, core, bios_read>>

(***************************************************************************)
(* Specifications                                                          *)
(***************************************************************************)

InitWith(waitcnts, cartridges) ==
    /\ \E w \in waitcnts, cart \in cartridges :
          /\ sysbus = SysBus_new(w, cart)
          /\ last = Done("new", 0, 0, TRUE, w)
    /\ cpu = CpuReset
    /\ core = CoreReset
    /\ bios_read = ZeroWord

\* the wait-control register is written
InitWait == InitWith({WaitControlReset}, {PlainCartridge})
NextWait == \E w \in WaitControls : WaitcntWritten(w)
SpecWait == InitWait /\ [][NextWait]_vars

\* work RAM is read and written
InitRam == InitWith({WaitControlReset}, {PlainCartridge})
NextRam ==
    \/ \E a \in RamAddrs, v \in Values32 : Write32(a, v)
    \/ \E a \in RamAddrs, v \in Values16 : Write16(a, v)
    \/ \E a \in RamAddrs, v \in Values8 : Write8(a, v)
    \/ \E a \in RamAddrs : Read32(a)
    \/ \E a \in RamAddrs : Read16(a)
    \/ \E a \in RamAddrs : Read8(a)
SpecRam == InitRam /\ [][NextRam]_vars

\* the CPU runs; the BIOS page and unmapped pages are read
InitBios == InitWith({WaitControlReset}, {PlainCartridge})
NextBios ==
    \/ \E c \in CpuStates : CpuStep(c)
    \/ \E a \in BiosAddrs \cup OpenBusAddrs : Read32(a)
    \/ \E a \in BiosAddrs \cup OpenBusAddrs : Read16(a)
    \/ \E a \in BiosAddrs \cup OpenBusAddrs : Read8(a)
    \/ \E a \in OamAddrs, v \in {<<52, 18>>} : Write16(a, v)
SpecBios == InitBios /\ [][NextBios]_vars

\* the gamepak ROM window is read and written
InitCart == InitWith({WaitControlReset}, Cartridges)
NextCart ==
    \/ \E a \in RomAddrs, v \in Values32 : Write32(a, v)
    \/ \E a \in RomAddrs, v \in Values16 : Write16(a, v)
    \/ \E a \in RomAddrs, v \in Values8 : Write8(a, v)
    \/ \E a \in RomAddrs : Read32(a)
    \/ \E a \in RomAddrs : Read16(a)
    \/ \E a \in RomAddrs : Read8(a)
SpecCart == InitCart /\ [][NextCart]_vars

\* the SRAM region is read and written next to the GPIO aliases of the ROM
\* window: 0x0E000000, 0x0E0000C4, 0x0F0000C6 and 0x080000C4
SramAddrs == {234881024, 234881220, 251658438, 134217924}
InitSram == InitWith({WaitControlReset}, Cartridges)
NextSram ==
    \/ \E a \in SramAddrs, v \in Values16 : Write16(a, v)
    \/ \E a \in SramAddrs, v \in Values8 : Write8(a, v)
    \/ \E a \in SramAddrs : Read16(a)
    \/ \E a \in SramAddrs : Read8(a)
SpecSram == InitSram /\ [][NextSram]_vars

\* the I/O page is read and written: 0x04000400 and 0x04008002
IoAddrs == {67109888, 67141634}
InitIo == InitWith({WaitControlReset}, {PlainCartridge})
NextIo ==
    \/ \E a \in IoAddrs, v \in Values32 : Write32(a, v)
    \/ \E a \in IoAddrs, v \in Values16 : Write16(a, v)
    \/ \E a \in IoAddrs, v \in Values8 : Write8(a, v)
    \/ \E a \in IoAddrs : Read32(a)
    \/ \E a \in IoAddrs : Read16(a)
    \/ \E a \in IoAddrs : Read8(a)
SpecIo == InitIo /\ [][NextIo]_vars

\* the debugger inspects memory between the CPU's own reads
DebugAddrs ==
    {0, 5, 16383, 16384, 33554436, 134217728, 135266304, 234881023,
     268435456, 268435459, 2130706434}
InitDebug == InitWith({WaitControlReset}, {PlainCartridge})
NextDebug ==
    \/ \E c \in CpuStates : CpuStep(c)
    \/ \E a \in BiosAddrs \cup UnmappedAddrs : Read8(a)
    \/ \E a \in DebugAddrs : DebugRead8(a)
SpecDebug == InitDebug /\ [][NextDebug]_vars

\* the CPU, in ARM state, executes from pc
InitExec(pc, gprs) ==
    /\ sysbus = SysBus_new(WaitControlReset, PlainCartridge)
    /\ last = Done("new", 0, 0, TRUE, WaitControlReset)
    /\ cpu = [CpuReset EXCEPT !.pc = pc]
    /\ \E gpr \in gprs : core = [CoreReset EXCEPT !.gpr = gpr]
    /\ bios_read = ZeroWord

\* branches, from IWRAM at 0x03000008
InitBranch == InitExec(50331656, {BranchRegisters})
NextBranch == \E insn \in BranchInsns : ExecArm(insn)
SpecBranch == InitBranch /\ [][NextBranch]_vars

\* data processing, from the ROM at 0x08000008
InitDp == InitExec(134217736, {DpRegisters})
NextDp == \E insn \in DpInsns : ExecArm(insn)
SpecDp == InitDp /\ [][NextDp]_vars

\* loads and stores, from the ROM at 0x08000008
InitLdrStr == InitExec(134217736, {LdrStrRegisters})
NextLdrStr == \E insn \in LdrStrInsns : ExecArm(insn)
SpecLdrStr == InitLdrStr /\ [][NextLdrStr]_vars

Init == InitWith(WaitControls, Cartridges)
Next == NextWait \/ NextRam \/ NextBios \/ NextCart \/ NextSram \/ NextIo \/ NextDebug \/ NextBranch \/ NextDp \/ NextLdrStr
Spec == Init /\ [][Next]_vars

(***************************************************************************)
(* Claims about the cycle tables (SpecWait)                                *)
(***************************************************************************)

GamepakPages == PAGE_GAMEPAK_WS0 .. PAGE_GAMEPAK_WS2_HI

\* the first address of a page
PageBase(p) == p * 16777216

\* C1: in every state reachable from SysBus::new by on_waitcnt_written
\* calls, for every gamepak page p in 0x08..0x0D,
\* n_cycles32[p] = n_cycles16[p] + s_cycles16[p] and
\* s_cycles32[p] = 2 * s_cycles16[p].
C1_CycleTableConsistency ==
    \A p \in GamepakPages :
        /\ sysbus.cycle_luts.n_cycles32[p] =
              sysbus.cycle_luts.n_cycles16[p] + sysbus.cycle_luts.s_cycles16[p]
        /\ sysbus.cycle_luts.s_cycles32[p] = 2 * sysbus.cycle_luts.s_cycles16[p]

\* a write with ws2_first = 3, ws2_second = 0 has made both costs of page
\* 0x0D 18 cycles
C1_Witness ==
    /\ last.op = "on_waitcnt_written"
    /\ last.waitcnt.ws2_first = 3 /\ last.waitcnt.ws2_second = 0
    /\ sysbus.cycle_luts.n_cycles32[PAGE_GAMEPAK_WS2_HI] = 18
    /\ sysbus.cycle_luts.s_cycles32[PAGE_GAMEPAK_WS2_HI] = 18

\* the non-sequential wait count a 2-bit field selects, plus the bus cycle
ExpectedNonSeq(field) ==
    1 + (CASE field = 0 -> 4 [] field = 1 -> 3 [] field = 2 -> 2 [] field = 3 -> 8)

\* C2: after on_waitcnt_written(w), for both SRAM pages (0x0E and 0x0F),
\* get_cycles returns 1 + {4,3,2,8}[w.sram_wait] for every access type and
\* every width.
C2_SramTiming ==
    last.op = "on_waitcnt_written" =>
        \A p \in {PAGE_SRAM_LO, PAGE_SRAM_HI}, access \in MemoryAccessTypes,
           width \in MemoryAccessWidths :
            get_cycles(sysbus, PageBase(p), access, width) =
                ExpectedNonSeq(last.waitcnt.sram_wait)

\* the sequential wait count of waitstate n (0, 1, 2) a 1-bit field selects,
\* plus the bus cycle
ExpectedSeq(n, field) ==
    1 + (IF field = 1 THEN 1
         ELSE CASE n = 0 -> 2 [] n = 1 -> 4 [] n = 2 -> 8)

WaitstateFirst(w, n) ==
    CASE n = 0 -> w.ws0_first [] n = 1 -> w.ws1_first [] n = 2 -> w.ws2_first

WaitstateSecond(w, n) ==
    CASE n = 0 -> w.ws0_second [] n = 1 -> w.ws1_second [] n = 2 -> w.ws2_second

\* C3: immediately after on_waitcnt_written(w), for each waitstate N and
\* both its pages, an 8- or 16-bit NonSeq access costs
\* 1 + {4,3,2,8}[w.wsN_first] and an 8- or 16-bit Seq access costs 1 + the
\* WS-N sequential cost selected by w.wsN_second (WS0 {2,1}, WS1 {4,1},
\* WS2 {8,1}), whatever was written before; with ws0_first = 3,
\* get_cycles(0x08000000, NonSeq, 16) = 9.
C3_GamepakTiming ==
    last.op = "on_waitcnt_written" =>
        /\ \A n \in 0 .. 2, i \in 0 .. 1, width \in {8, 16} :
              LET addr == PageBase(PAGE_GAMEPAK_WS0 + 2 * n + i)
              IN  /\ get_cycles(sysbus, addr, "NonSeq", width) =
                        ExpectedNonSeq(WaitstateFirst(last.waitcnt, n))
                  /\ get_cycles(sysbus, addr, "Seq", width) =
                        ExpectedSeq(n, WaitstateSecond(last.waitcnt, n))
        /\ last.waitcnt.ws0_first = 3 =>
              get_cycles(sysbus, 134217728, "NonSeq", 16) = 9

\* ws0_first = 3 has been written and the first ROM page costs 9 cycles
C3_Witness ==
    /\ last.op = "on_waitcnt_written"
    /\ last.waitcnt.ws0_first = 3
    /\ get_cycles(sysbus, 134217728, "NonSeq", 16) = 9
    /\ get_cycles(sysbus, 150994944, "NonSeq", 8) = 9

(***************************************************************************)
(* Claims about work RAM (SpecRam)                                         *)
(***************************************************************************)

EWRAM_ADDR == 33554432
IWRAM_ADDR == 50331648

\* offsets probed in each region: a word at every byte offset and the last
\* byte of the 32 KiB; in EWRAM also a word 32 KiB on
ProbeOffsets == {4, 5, 6, 7, 32767}
EwramProbeOffsets == ProbeOffsets \cup {32772}

\* how many region sizes on a mirror lies: none, one, and the last in the page
EwramMirrors == {0, 1, 63}
IwramMirrors == {0, 1, 511}

ReadValue(width, sb, addr) ==
    CASE width = 8 -> read_8(sb, cpu, addr, MaxNest).value
      [] width = 16 -> read_16(sb, cpu, addr, MaxNest).value
      [] width = 32 -> read_32(sb, cpu, addr, MaxNest).value

\* C5: in every reachable bus state, for every width N, two reads read_N at
\* EWRAM addresses congruent mod 0x40000 return the same value, and likewise
\* for IWRAM addresses congruent mod 0x8000.
C5_MirrorClosure ==
    \A width \in MemoryAccessWidths :
        /\ \A off \in EwramProbeOffsets, k \in EwramMirrors :
              ReadValue(width, sysbus, EWRAM_ADDR + off + k * 262144) =
                  ReadValue(width, sysbus, EWRAM_ADDR + off)
        /\ \A off \in ProbeOffsets, k \in IwramMirrors :
              ReadValue(width, sysbus, IWRAM_ADDR + off + k * 32768) =
                  ReadValue(width, sysbus, IWRAM_ADDR + off)

\* read_32 of the last EWRAM mirror of offset 4 has returned a word written
\* before, and the IWRAM mirror of offset 5 holds a written byte
C5_Witness ==
    /\ last.op = "read_32" /\ last.addr = 50069510
    /\ last.value = <<239, 190, 173, 222>>
    /\ ReadValue(32, sysbus, EWRAM_ADDR + 4) = last.value
    /\ ReadValue(8, sysbus, IWRAM_ADDR + 32768 + 5) = 66

ProbeValues8 == {0, 66, 255}
ProbeValues16 == {<<0, 0>>, <<239, 190>>, <<255, 1>>}
ProbeValues32 == {<<0, 0, 0, 0>>, <<239, 190, 173, 222>>, <<4, 3, 2, 255>>}

\* in both pages: the probed offsets, and their mirrors at 0x..FF8000
RamProbeAddrs ==
    {base + off + k : base \in {EWRAM_ADDR, IWRAM_ADDR}, off \in ProbeOffsets,
                      k \in {0, 16744448}}

\* C6: for every address a in the EWRAM or IWRAM page, aligned or not, and
\* every value v, write_N(a, v) immediately followed by read_N(a) returns v,
\* for N = 32, 16 and 8.
C6_RoundTripRam ==
    \A a \in RamProbeAddrs :
        /\ \A v \in ProbeValues32 :
              ReadValue(32, write_32(sysbus, a, v), a) = v
        /\ \A v \in ProbeValues16 :
              ReadValue(16, write_16(sysbus, a, v), a) = v
        /\ \A v \in ProbeValues8 :
              ReadValue(8, write_8(sysbus, a, v), a) = v

\* read_16 of the odd address 0x02000005 has returned the half-word written,
\* with other bytes of the word written too
C6_Witness ==
    /\ last.op = "read_16" /\ last.addr = 33554437
    /\ last.value = <<239, 190>>
    /\ ReadValue(8, sysbus, EWRAM_ADDR + 6) = 66

(***************************************************************************)
(* Claims about the BIOS page and open-bus reads (SpecBios)                *)
(***************************************************************************)

\* in-range BIOS addresses probed: the first two words and the last one
BiosProbeAddrs == {0, 1, 2, 3, 5, 6, 16380, 16382, 16383}

\* byte i (0..3) of a word, as a u8: (w >> (i * 8)) & 0xff
ByteOf(w, i) == w[i + 1]

\* the cell as a read of `width` at `addr` presents it
CellAs(width, cell, addr) ==
    CASE width = 32 -> cell
      [] width = 16 -> <<ByteOf(cell, 2 * ((addr % 4) \div 2)),
                         ByteOf(cell, 2 * ((addr % 4) \div 2) + 1)>>
      [] width = 8 -> ByteOf(cell, addr % 4)

ReadResult(width, sb, addr) ==
    CASE width = 8 -> read_8(sb, cpu, addr, MaxNest)
      [] width = 16 -> read_16(sb, cpu, addr, MaxNest)
      [] width = 32 -> read_32(sb, cpu, addr, MaxNest)

\* C4: while cpu.pc >= 0x4000, every read_8/16/32 of an in-range BIOS
\* address leaves the cached cell unchanged and returns a value taken only
\* from that cell, shifted per the access width; the cell holds the BIOS
\* word at (addr & ~3) of the most recent in-range BIOS read made while
\* cpu.pc < 0x4000, 0 if there was none.
C4_BiosProtection ==
    /\ sysbus.bios_value = bios_read
    /\ cpu.pc >= 16384 =>
          \A width \in MemoryAccessWidths, addr \in BiosProbeAddrs :
              LET r == ReadResult(width, sysbus, addr)
              IN  /\ r.returned
                  /\ r.bios_value = sysbus.bios_value
                  /\ r.value = CellAs(width, sysbus.bios_value, addr)

\* with pc outside the BIOS, read_16(0x3FFE) has returned the upper half of
\* the cell, which an earlier read left holding a word other than the one
\* at 0x3FFC
C4_Witness ==
    /\ cpu.pc >= 16384
    /\ last.op = "read_16" /\ last.addr = 16382
    /\ sysbus.bios_value # ZeroWord
    /\ sysbus.bios_value # bios_read_32(16380)
    /\ last.value = <<sysbus.bios_value[3], sysbus.bios_value[4]>>

\* unmapped addresses probed: every byte of two words of page 0x10, and of
\* the last word of page 0x7F
UnmappedProbeAddrs ==
    {268435456 + i : i \in 0 .. 7} \cup {2147483644 + i : i \in 0 .. 3}

\* C8: for every address a on an unmapped page (top byte >= 0x10) and every
\* CPU state, read_8(a) = (read_32(a & ~3) >> ((a & 3) * 8)) & 0xff; the two
\* reads return, or fail to return, together.
C8_OpenBusShift ==
    \A a \in UnmappedProbeAddrs :
        LET r8 == ReadResult(8, sysbus, a)
            r32 == ReadResult(32, sysbus, a - (a % 4))
        IN  /\ r8.returned = r32.returned
            /\ r8.returned => r8.value = ByteOf(r32.value, a % 4)

\* in THUMB state with pc in EWRAM, read_8(0x10000003) has returned the
\* upper byte of the prefetched half-word, byte 3 of the open-bus word
C8_Witness ==
    /\ last.op = "read_8" /\ last.addr = 268435459 /\ last.returned
    /\ cpu.state = "THUMB" /\ Page(cpu.pc) = PAGE_EWRAM
    /\ cpu.prefetched = <<170, 187, 204, 221>>
    /\ last.value = 187

\* C9: every open-bus read (read_8/16/32 of an unmapped page or of a
\* BIOS-page address beyond 0x3FFF) terminates and returns a value for
\* every CPU state and every pc, including THUMB state with a 4-byte-aligned
\* pc in the BIOS page.
C9_OpenBusReadsReturn ==
    (last.op \in {"read_8", "read_16", "read_32"} /\ IsOpenBusAddr(last.addr))
        => last.returned

\* (hi << 16) | lo of two half-words
HiLo(hi, lo) == <<lo[1], lo[2], hi[1], hi[2]>>

LowHalf(w) == <<w[1], w[2]>>

\* the 32-bit open-bus value, by the page of pc
ExpectedOpenBus(r15_plus_6) ==
    LET prefetched == LowHalf(cpu.prefetched)
        decoded == LowHalf(cpu.decoded)
        aligned == cpu.pc % 4 = 0
        page == cpu.pc \div 16777216
    IN  IF cpu.state = "ARM" THEN cpu.prefetched
        ELSE CASE page \in {0, 7} ->
                    IF aligned THEN HiLo(r15_plus_6, prefetched)
                    ELSE HiLo(prefetched, decoded)
               [] page = 3 ->
                    IF aligned THEN HiLo(decoded, prefetched)
                    ELSE HiLo(prefetched, decoded)
               [] OTHER -> HiLo(prefetched, prefetched)

\* C10: in THUMB state the 32-bit open-bus value (before the shift) is, by
\* the page of pc: EWRAM, PALRAM, VRAM, any gamepak page and any other page
\* (prefetched << 16) | prefetched; BIOS and OAM (read_16(pc+6) << 16) |
\* prefetched when pc is 4-byte aligned, else (prefetched << 16) | decoded;
\* IWRAM (decoded << 16) | prefetched when pc is 4-byte aligned, else
\* (prefetched << 16) | decoded; in ARM state it is the prefetched opcode.
\* Where the value rests on read_16(pc+6), it exists when that read returns.
C10_OpenBusValue ==
    \A a \in {268435456, 2147483644} :
        LET r == ReadResult(32, sysbus, a)
            nested == cpu.state = "THUMB" /\ cpu.pc % 4 = 0
                        /\ cpu.pc \div 16777216 \in {0, 7}
            r15_plus_6 == ReadResult(16, sysbus, cpu.pc + 6)
        IN  IF nested
            THEN /\ r.returned = r15_plus_6.returned
                 /\ r.returned => r.value = ExpectedOpenBus(r15_plus_6.value)
            ELSE /\ r.returned
                 /\ r.value = ExpectedOpenBus(<<0, 0>>)

\* in THUMB state with pc = 0x07000000, read_32(0x10000000) has returned the
\* half-word written to OAM at pc + 6 above the prefetched half-word
C10_Witness ==
    /\ last.op = "read_32" /\ last.addr = 268435456 /\ last.returned
    /\ cpu.state = "THUMB" /\ cpu.pc = 117440512
    /\ cpu.prefetched = <<170, 187, 204, 221>>
    /\ last.value = <<170, 187, 52, 18>>

(***************************************************************************)
(* Claims about the gamepak ROM window (SpecCart)                          *)
(***************************************************************************)

\* ROM-window addresses probed: in every page 0x08..0x0D, offsets 0, 1,
\* 0xC2..0xC9 and the last 0x102 bytes of the page
RomProbeAddrs ==
    {PageBase(p) + off : p \in GamepakPages,
                         off \in {0, 1} \cup (194 .. 201)
                                 \cup {16776958, 16776959, 16776960, 16777215}}

\* a GPIO register alias of a cartridge with GPIO
IsGpioAlias(addr) ==
    sysbus.cartridge.gpio.present /\ (addr % 33554432) \in {196, 198, 200}

\* inside an active EEPROM window
InEepromWindow(addr) ==
    /\ sysbus.cartridge.backup.kind = "Eeprom"
    /\ addr \div 16777216 = 13
    /\ (sysbus.cartridge.size <= 16777216 \/ addr >= 234880768)

\* C7: for every address in a gamepak ROM page (0x08..0x0D) that is neither
\* inside an active EEPROM window nor a GPIO register alias of a cartridge
\* with GPIO, write_N(rom_addr, v) for N in {8,16,32} changes no cartridge
\* or bus state, so a following read_N(rom_addr) returns the same value as
\* before the write.
C7_RomReadOnly ==
    \A a \in RomProbeAddrs :
        (~IsGpioAlias(a) /\ ~InEepromWindow(a)) =>
            /\ \A v \in ProbeValues32 :
                  /\ write_32(sysbus, a, v) = sysbus
                  /\ ReadValue(32, write_32(sysbus, a, v), a) = ReadValue(32, sysbus, a)
            /\ \A v \in ProbeValues16 :
                  /\ write_16(sysbus, a, v) = sysbus
                  /\ ReadValue(16, write_16(sysbus, a, v), a) = ReadValue(16, sysbus, a)
            /\ \A v \in ProbeValues8 :
                  /\ write_8(sysbus, a, v) = sysbus
                  /\ ReadValue(8, write_8(sysbus, a, v), a) = ReadValue(8, sysbus, a)

(***************************************************************************)
(* Claims about the debugger's read (SpecDebug)                            *)
(***************************************************************************)

\* addresses probed: BIOS in range, page 0 beyond the image, work RAM,
\* ROM within and beyond a 1 MiB image, SRAM, unmapped pages
DebugProbeAddrs ==
    {0, 1, 5, 16382, 16383, 16384, 33554436, 50331652, 134217728, 135266304,
     234881023, 234881024, 268435456, 268435457, 268435459, 2130706434,
     2147483647}

\* C11: debug_read_8(addr) is side-effect free for every address and every
\* CPU state: the cached BIOS cell, the one field a call through a shared
\* reference could change, is the same after the call as before it, and
\* still the word of the last unprotected BIOS read; for an in-range BIOS
\* address the call returns the BIOS byte at addr whatever cpu.pc is; for an
\* address of an unmapped page (top byte >= 0x10) it returns 0.
C11_DebugReadFrame ==
    /\ \A a \in DebugProbeAddrs :
          LET r == debug_read_8(sysbus, a)
          IN  /\ r.bios_value = sysbus.bios_value
              /\ a < 16384 => (r.returned /\ r.value = (7 * a + 3) % 256)
              /\ a \div 16777216 >= 16 => (r.returned /\ r.value = 0)
    /\ last.op = "debug_read_8" => sysbus.bios_value = bios_read

\* with pc outside the BIOS and a non-zero cell, debug_read_8(5) has
\* returned the BIOS byte, where read_8(5) returns a byte of the cell
C11_Witness ==
    /\ last.op = "debug_read_8" /\ last.addr = 5 /\ last.returned
    /\ cpu.pc >= 16384
    /\ sysbus.bios_value # ZeroWord
    /\ last.value = bios(5)
    /\ read_8(sysbus, cpu, 5, MaxNest).value # last.value

(***************************************************************************)
(* Claims about EEPROM and GPIO routing (SpecCart)                         *)
(***************************************************************************)

\* the byte the ROM window shows at an address: 0xDD beyond the image
RomByteAt(addr) ==
    IF addr % 33554432 >= sysbus.cartridge.size THEN 221
    ELSE rom_bytes(addr % 33554432)

\* the half-word the ROM window shows at the half-word-aligned address
RomHalfAt(addr) == <<RomByteAt(addr - (addr % 2)), RomByteAt(addr - (addr % 2) + 1)>>

\* a 16-bit access to address a that the three conditions do not all allow
\* leaves the EEPROM untouched
EepromUntouchedBy(a) ==
    \A v \in ProbeValues16 :
        LET after == write_16(sysbus, a, v).cartridge.backup
        IN  /\ after.rx = sysbus.cartridge.backup.rx
            /\ sysbus.cartridge.backup.kind = "Eeprom" =>
                  after = sysbus.cartridge.backup

SramProbeAddrs ==
    {234881024 + off : off \in {196, 198, 200}} \cup
    {251658240 + off : off \in {196, 198, 200}}

\* the byte of the SRAM region by backup variant: the SRAM byte at
\* addr mod 0x8000, the Flash read, else 0
BackupByteAt(addr) ==
    CASE sysbus.cartridge.backup.kind = "Sram" ->
            BoxedMemory_read_8(sysbus.cartridge.backup.mem, addr % 32768)
      [] sysbus.cartridge.backup.kind = "Flash" ->
            Flash_read(sysbus.cartridge.backup, addr)
      [] OTHER -> 0

\* C13: with GPIO present, a 16-bit read or write to the SRAM region (top
\* byte 0x0E or 0x0F) whose low 25 bits equal 0xC4, 0xC6 or 0xC8 is
\* dispatched on the backup variant (SRAM byte at addr mod 0x8000, Flash
\* read, else 0) and never reads or modifies the GPIO register file.
C13_GpioOnlyInRomWindow ==
    sysbus.cartridge.gpio.present =>
        \A a \in SramProbeAddrs :
            /\ \A v \in ProbeValues16 :
                  write_16(sysbus, a, v).cartridge.gpio = sysbus.cartridge.gpio
            /\ ReadValue(16, sysbus, a) = <<BackupByteAt(a), BackupByteAt(a + 1)>>

(***************************************************************************)
(* Claims about the I/O page (SpecIo)                                      *)
(***************************************************************************)

\* I/O-page addresses probed: 0x04000000..2, 0x04000204, 0x040003FF,
\* 0x04000400, 0x04000402, 0x040007FF, 0x04000800, 0x04008000..2,
\* 0x04018000, 0x04FF8000, 0x04FFFFFF
IoProbeAddrs ==
    {67108864, 67108865, 67108866, 67109380, 67109887, 67109888, 67109890,
     67110911, 67110912, 67141632, 67141633, 67141634, 67207168, 83853312,
     83886079}

\* the offset of an access of `bytes` bytes: the aligned address mod 0x400,
\* or 0x800 when the low 16 bits of the aligned address are 0x8000
MaskedOffset(bytes, addr) ==
    LET aligned == addr - (addr % bytes)
    IN  IF aligned % 65536 = 32768 THEN 2048 ELSE aligned % 1024

\* C14: for every read or write of any width to the IOMEM page (top byte
\* 0x04), the offset handed to the I/O block is the address masked mod 0x400
\* (aligned to the access width), except that an address whose low 16 bits
\* equal 0x8000 is remapped to offset 0x800; reads and writes of the same
\* width and address use the same offset.
C14_IomemOffset ==
    \A a \in IoProbeAddrs :
        /\ \A v \in ProbeValues32 :
              /\ write_32(sysbus, a, v).io =
                    IoDevices_write_32(sysbus.io, MaskedOffset(4, a), v)
              /\ ReadValue(32, write_32(sysbus, a, v), a) = v
        /\ \A v \in ProbeValues16 :
              /\ write_16(sysbus, a, v).io =
                    IoDevices_write_16(sysbus.io, MaskedOffset(2, a), v)
              /\ ReadValue(16, write_16(sysbus, a, v), a) = v
        /\ \A v \in ProbeValues8 :
              /\ write_8(sysbus, a, v).io =
                    IoDevices_write_8(sysbus.io, MaskedOffset(1, a), v)
              /\ ReadValue(8, write_8(sysbus, a, v), a) = v
        /\ ReadValue(32, sysbus, a) = IoDevices_read_32(sysbus.io, MaskedOffset(4, a))
        /\ ReadValue(16, sysbus, a) = IoDevices_read_16(sysbus.io, MaskedOffset(2, a))
        /\ ReadValue(8, sysbus, a) = IoDevices_read_8(sysbus.io, MaskedOffset(1, a))

(***************************************************************************)
(* Claims about the cycles of ARM instructions                             *)
(***************************************************************************)

\* the instruction just executed, and what `last` kept from before it
Executed(fmt) ==
    /\ last.op = fmt
    /\ last.value.executed

OldPc == last.addr
CyclesBefore == last.value.cycles
Cost(access, width, addr) == get_cycles(sysbus, addr, access, width)
WordSize == IF cpu.state = "ARM" THEN 4 ELSE 2

\* C15: an executed (condition-passing) B, BL or BX charges, in this
\* order, one NonSeq 32-bit access looked up at the old pc, then two Seq
\* 32-bit accesses looked up at the new pc and the new pc + word size, and
\* returns Flush; BL has set r14 from the old pc.
C15_BranchCycles ==
    (Executed("B_BL") \/ Executed("BX")) =>
        /\ core.charged =
              <<[access |-> "NonSeq", width |-> 32, addr |-> OldPc],
                [access |-> "Seq", width |-> 32, addr |-> cpu.pc],
                [access |-> "Seq", width |-> 32, addr |-> cpu.pc + WordSize]>>
        /\ core.cycles = CyclesBefore + Cost("NonSeq", 32, OldPc)
                            + Cost("Seq", 32, cpu.pc)
                            + Cost("Seq", 32, cpu.pc + WordSize)
        /\ last.value.action = "Flush"
        /\ (last.op = "B_BL" /\ last.value.insn.link) =>
              core.gpr[14] = AddrToWord(OldPc - (OldPc % 2))

\* a BL from IWRAM into the ROM: 1 + 6 + 6 cycles, r14 holding the IWRAM pc
C15_Witness ==
    /\ Executed("B_BL") /\ last.value.insn.link
    /\ OldPc \div 16777216 = 3 /\ cpu.pc \div 16777216 = 8
    /\ core.cycles = CyclesBefore + 13
    /\ core.gpr[14] = AddrToWord(OldPc)
    /\ last.value.action = "Flush"

\* how many of the charges of the instruction just executed are of a kind
Charged(access) ==
    Cardinality({i \in DOMAIN core.charged : core.charged[i].access = access})

\* the second operand is a register shifted by a register-specified amount
ShiftedByRegister(insn) ==
    insn.op2.kind = "ShiftedRegister" /\ insn.op2.shift.by = "ShiftRegister"

\* C16: a successfully executed data-processing instruction charges exactly
\* 1S, plus 1I if and only if the second operand is shifted by a
\* register-specified amount, plus 1N and 1S if and only if the destination
\* register is PC, in which case it returns Flush; otherwise it returns IncPC.
C16_DataProcessingCycles ==
    (Executed("DP") /\ last.returned) =>
        LET insn == last.value.insn
            to_pc == insn.rd = 15
        IN  /\ Charged("Seq") = (IF to_pc THEN 2 ELSE 1)
            /\ Charged("NonSeq") = (IF to_pc THEN 1 ELSE 0)
            /\ Charged("Internal") = (IF ShiftedByRegister(insn) THEN 1 ELSE 0)
            /\ Len(core.charged) = Charged("Seq") + Charged("NonSeq") + Charged("Internal")
            /\ last.value.action = (IF to_pc THEN "Flush" ELSE "IncPC")

\* the address [Rn +/- offset] of the transfer just executed, from the
\* registers before it; the offsets drawn are added and unshifted
TransferAddress ==
    LET insn == last.value.insn
        rn == WordToAddr(last.value.gpr[insn.rn])
    IN  IF insn.ldr_offset.kind = "ImmediateValue"
        THEN rn + WordToAddr(insn.ldr_offset.value)
        ELSE rn + WordToAddr(last.value.gpr[insn.ldr_offset.reg])

TransferWidth == IF last.value.insn.transfer_size = 1 THEN 8 ELSE 32

\* C17: a single-data-transfer load charges 1N looked up for the memory
\* address it reads, with the transfer's width, then 1S for the next opcode
\* fetch, then 1I, and additionally 1S + 1N with result Flush exactly when
\* the destination register is PC; the cost does not depend on the previous
\* contents of the destination register.
C17_LoadCycles ==
    (Executed("LDR_STR") /\ last.value.insn.load /\ last.returned) =>
        LET to_pc == last.value.insn.rd = 15
        IN  /\ Len(core.charged) = (IF to_pc THEN 5 ELSE 3)
            /\ core.charged[1] =
                  [access |-> "NonSeq", width |-> TransferWidth,
                   addr |-> TransferAddress]
            /\ core.charged[2].access = "Seq"
            /\ core.charged[3].access = "Internal"
            /\ to_pc => /\ core.charged[4].access = "Seq"
                        /\ core.charged[5].access = "NonSeq"
            /\ last.value.action = (IF to_pc THEN "Flush" ELSE "IncPC")
            /\ core.cycles - CyclesBefore =
                  Cost("NonSeq", TransferWidth, TransferAddress)
                    + Cost("Seq", 32, OldPc + 4)
                    + 1
                    + (IF to_pc
                       THEN Cost("Seq", 32, core.charged[4].addr)
                              + Cost("NonSeq", 32, core.charged[5].addr)
                       ELSE 0)

\* the register Rd as the store writes it: its low byte for a byte transfer
StoredValue(width, w) == IF width = 8 THEN w[1] ELSE w

\* C18: a single-data-transfer store writes the value of register Rd (its
\* low 8 bits for a byte transfer) to the address [Rn +/- offset], charges
\* exactly two NonSeq accesses, and returns IncPC.
C18_StoreWritesRd ==
    (Executed("LDR_STR") /\ ~last.value.insn.load /\ last.returned) =>
        /\ ReadValue(TransferWidth, sysbus, TransferAddress) =
              StoredValue(TransferWidth, last.value.gpr[last.value.insn.rd])
        /\ Len(core.charged) = 2
        /\ Charged("NonSeq") = 2
        /\ last.value.action = "IncPC"

\* (a + b + c) mod 2^32, byte by byte with the carry rippling upwards
SumMod32(a, b, c) ==
    LET s1 == a[1] + b[1] + c
        s2 == a[2] + b[2] + (s1 \div 256)
        s3 == a[3] + b[3] + (s2 \div 256)
        s4 == a[4] + b[4] + (s3 \div 256)
    IN  <<s1 % 256, s2 % 256, s3 % 256, s4 % 256>>

\* (a - b) mod 2^32 = (a + ~b + 1) mod 2^32
DifferenceMod32(a, b) ==
    SumMod32(a, <<255 - b[1], 255 - b[2], 255 - b[3], 255 - b[4]>>, 1)

\* the registers and the carry flag the instruction just executed started from
MachineBefore ==
    [cpu |-> [pc |-> OldPc],
     core |-> [gpr |-> last.value.gpr, C |-> last.value.C]]

\* the operands the instruction just executed handed to the ALU
AluOp1 == get_reg(MachineBefore, last.value.insn.rn)
AluOp2 == operand2(MachineBefore, last.value.insn.op2).value
AluResult == alu_result(MachineBefore, last.value.insn.opcode, AluOp1, AluOp2).res

\* TST, TEQ, CMP and CMN leave every register as it was
NoDestinationWritten ==
    (Executed("DP") /\ last.returned
        /\ last.value.insn.opcode \in {"TST", "TEQ", "CMP", "CMN"}) =>
        core.gpr = last.value.gpr

\* SUB and CMP give (op1 - op2) mod 2^32
SubtractionResult ==
    (Executed("DP") /\ last.returned
        /\ last.value.insn.opcode \in {"SUB", "CMP"}) =>
        AluResult = DifferenceMod32(AluOp1, AluOp2)

\* C19: the ALU result of ADD and CMN is (op1 + op2) mod 2^32, that of ADC
\* is (op1 + op2 + C) mod 2^32, that of SUB and CMP is (op1 - op2) mod 2^32,
\* and TST, TEQ, CMP and CMN write no destination register.
C19_AluArithmetic ==
    /\ (Executed("DP") /\ last.returned) =>
          LET opcode == last.value.insn.opcode
          IN  /\ opcode \in {"ADD", "CMN"} =>
                    AluResult = SumMod32(AluOp1, AluOp2, 0)
              /\ opcode = "ADC" =>
                    AluResult = SumMod32(AluOp1, AluOp2,
                                         IF last.value.C THEN 1 ELSE 0)
    /\ SubtractionResult
    /\ NoDestinationWritten

====
